---- MODULE Spec2Model ----
(***************************************************************************)
(* The voting state machine of go-dvote (the ABCI application             *)
(* BaseApplication, its State Store and vote cache) and the Scrutinizer    *)
(* that indexes live and final results.                                    *)
(*                                                                         *)
(* The application handlers (Info, BeginBlock, CheckTx, DeliverTx, Commit) *)
(* and the Scrutinizer callbacks are translated from the source.  The      *)
(* State Store, the transaction validator (AddTx) and the Scrutinizer's    *)
(* storage helpers are not part of the source tree at hand; they are       *)
(* modelled from the specification (sections 4.1, 4.2 and 4.5).            *)
(***************************************************************************)
EXTENDS Integers, Sequences, FiniteSets, TLC

\* ------------------------------------------------------------------ bounds

\* Highest block height BeginBlock is called with.
MaxHeight == 2
\* How many Commit calls of a run may come without a BeginBlock before them
\* (the benchmark calls Commit several times with no BeginBlock in between).
MaxRecommits == 1

\* ------------------------------------------------------------------- data

PIDs == {"p1", "p2", "p3", "p4"}
Voters == {"v1", "v2"}
NoProc == [none |-> TRUE]

PollVote == "poll-vote"
PetitionSign == "petition-sign"
EncryptedPoll == "encrypted-poll"
SnarkVote == "snark-vote"

\* A table in which only the snark-vote type needs keys.
ProcessRequireKeysSnarkOnly(t) == t = SnarkVote
\* A table in which no process type needs keys.
ProcessRequireKeysNone(t) == FALSE
ProcessRequireKeys(t) == t \in {EncryptedPoll, SnarkVote}
ProcessIsEncrypted(t) == t \in {EncryptedPoll, SnarkVote}
RequireKeys(p) == ProcessRequireKeys(p.ptype)
IsEncrypted(p) == ProcessIsEncrypted(p.ptype)

\* Number of key-holders of a key-requiring process; process p4 has one more.
KeyHolders == 1
KeyHoldersOf(pid) == IF pid = "p4" THEN KeyHolders + 1 ELSE KeyHolders

\* The transactions the consensus engine may hand to CheckTx and DeliverTx.
\* Process p1 is a poll-vote of entity e1, process p2 an encrypted-poll of
\* entity e2; both start at block 2 and last one block.
GenesisOracles == {"o1"}
\* The validators of the genesis app-state, each with its voting power.
GenesisValidators == {[pubKey |-> "val1", power |-> 10]}
NewProcessTx(pid, signer) ==
  [type |-> "newProcess", pid |-> pid,
   ptype |-> IF pid = "p1" THEN PollVote ELSE EncryptedPoll,
   eid |-> IF pid = "p1" THEN "e1" ELSE "e2",
   startBlock |-> 2, numberOfBlocks |-> 1, signer |-> signer]
\* The length of a uniq-id, in characters of the signature.
UniqIDLength == 32
\* A signature is a string, kept as its length and its first UniqIDLength
\* characters (head).  The signature of a voter over the contents of a vote
\* tx is longer than a uniq-id, and the contents signed show in its head.
Sign(voter, pid, pkg, proofOK) ==
  [len |-> UniqIDLength + 1, head |-> <<voter, pid, pkg, proofOK>>]
VoteTx(pid, voter, pkg, proofOK) ==
  [type |-> "vote", pid |-> pid, voter |-> voter, pkg |-> pkg, proofOK |-> proofOK,
   sig |-> Sign(voter, pid, pkg, proofOK)]
\* A vote of a voter outside the census that carries the Signature field of
\* another vote tx.
ForgedVoteTx(pid, voter, pkg, signed) ==
  [VoteTx(pid, voter, pkg, FALSE) EXCEPT !.sig = signed.sig]
CancelProcessTx(pid) == [type |-> "cancelProcess", pid |-> pid, signer |-> "o1"]
AdminTx(t, pid) == [type |-> t, pid |-> pid, signer |-> "o1"]
\* The AdminTx of a validator: addValidator with a power, removeValidator.
ValidatorTx(t, pubKey, power) ==
  [type |-> t, pubKey |-> pubKey, power |-> power, signer |-> "o1"]
GarbageTx == [type |-> "garbage"]

\* A run draws its transactions from one of four workloads: a poll-vote
\* process whose voter votes twice and that may be canceled, a poll-vote
\* process with two voters, an encrypted-poll process with its keys, or a
\* poll-vote process with a vote and a forged copy of it.
RevoteTxs ==
  {NewProcessTx("p1", "o1"), CancelProcessTx("p1"), GarbageTx,
   VoteTx("p1", "v1", 1, TRUE), VoteTx("p1", "v1", 0, TRUE), VoteTx("p1", "v2", 1, FALSE)}
PollTxs ==
  {NewProcessTx("p1", "o1"), NewProcessTx("p1", "x1"),
   VoteTx("p1", "v1", 1, TRUE), VoteTx("p1", "v2", 0, TRUE)}
KeysTxs ==
  {NewProcessTx("p2", "o1"), AdminTx("addProcessKeys", "p2"),
   AdminTx("revealProcessKeys", "p2"), VoteTx("p2", "v1", 1, TRUE), GarbageTx}
ForgedTxs ==
  {NewProcessTx("p1", "o1"), VoteTx("p1", "v1", 1, TRUE),
   ForgedVoteTx("p1", "v2", 0, VoteTx("p1", "v1", 1, TRUE))}
Workloads == {RevoteTxs, PollTxs, KeysTxs, ForgedTxs}
Txs == UNION Workloads

\* nullifier = hash(voterAddr || processID)
GenerateNullifier(voter, pid) == <<voter, pid>>
\* A uniq-id that is cut from a signature of any length.
UniqIDAnyLength(tx, processType) ==
  IF processType \in {PollVote, PetitionSign, EncryptedPoll} THEN tx.sig.head ELSE << >>
\* The uniq-id of a vote tx: the first characters of its signature, or the
\* empty string for a short signature and for the other process types.
UniqID(tx, processType) ==
  IF processType \in {PollVote, PetitionSign, EncryptedPoll} /\ tx.sig.len > UniqIDLength
  THEN tx.sig.head
  ELSE << >>
\* Whether the signature of a vote tx is the voter's signature of its contents.
SignatureOK(tx) == tx.sig = Sign(tx.voter, tx.pid, tx.pkg, tx.proofOK)

\* Tallies: one question with the options 0 and 1.
EmptyTally == <<0, 0>>
TallyAdd(t, pkg) == [t EXCEPT ![pkg + 1] = @ + 1]

MapPut(m, k, v) == [x \in (DOMAIN m) \cup {k} |-> IF x = k THEN v ELSE m[x]]
MapDel(m, k) == [x \in (DOMAIN m) \ {k} |-> m[x]]
EmptyMap == << >>

\* A census.Manager before Init, the zero value of the struct, and a Router
\* that has taken no request.
NoManager ==
  [init |-> "none", RootKey |-> "", Namespaces |-> << >>, Trees |-> EmptyMap,
   Storage |-> "nil", importQueue |-> << >>, senders |-> << >>, daemon |-> "none"]
NoRouter == [requests |-> << >>, replies |-> << >>]

\* ------------------------------------------------------------------ state

VARIABLES
  working,      \* State Store: the uncommitted working set
  committed,    \* State Store: the last committed snapshot
  voteCache,    \* uniq-id -> [height] of votes accepted by CheckTx
  votePool,     \* Scrutinizer per-block buffers
  processPool,
  resultsPool,
  storeL,       \* Scrutinizer store: liveProcess, ProcessID -> tally
  storeE,       \* entity, EntityID -> list of ProcessID
  storeP,       \* processEnding, block -> list of ProcessID
  storeR,       \* results, ProcessID -> final tally
  entityCount,
  tasks,        \* spawned checkFinishedProcesses(height), not yet run
  resp,         \* the response of the last handler call
  lastBegin,    \* the last BeginBlock: its height and its VoteCachePurge bound
  commits,      \* Commit calls at the committed height
  recommits,    \* Commit calls of the run that did not follow a BeginBlock
  written,      \* how many times each R[P] was written
  lock,         \* State.Lock of the JSON variant of the application
  txs,          \* the workload of this run
  manager,      \* census.Manager: namespaces, trees, import queue, daemon
  router        \* Router: the file requests taken and the replies sent

vars == <<working, committed, voteCache, votePool, processPool, resultsPool,
          storeL, storeE, storeP, storeR, entityCount, tasks, resp, lastBegin,
          commits, recommits, written, lock, txs, manager, router>>

\* The node as one value, for the handlers, which are written as functions
\* from node to node.
Node ==
  [working |-> working, committed |-> committed, voteCache |-> voteCache,
   votePool |-> votePool, processPool |-> processPool, resultsPool |-> resultsPool,
   storeL |-> storeL, storeE |-> storeE, storeP |-> storeP, storeR |-> storeR,
   entityCount |-> entityCount, tasks |-> tasks, written |-> written,
   lock |-> lock]

Install(n) ==
  /\ working' = n.working
  /\ committed' = n.committed
  /\ voteCache' = n.voteCache
  /\ votePool' = n.votePool
  /\ processPool' = n.processPool
  /\ resultsPool' = n.resultsPool
  /\ storeL' = n.storeL
  /\ storeE' = n.storeE
  /\ storeP' = n.storeP
  /\ storeR' = n.storeR
  /\ entityCount' = n.entityCount
  /\ tasks' = n.tasks
  /\ written' = n.written
  /\ lock' = n.lock

\* -------------------------------------------------------------- State Store

\* A snapshot holds the three subtrees: app (the header), process, vote.
\* The store of a new node is empty: no header, no oracle, no process.
EmptySnapshot ==
  [height |-> 0, oracles |-> {}, validators |-> {},
   procs |-> [p \in PIDs |-> NoProc], votes |-> {}]

\* get(tree, key, committed?): the committed snapshot or the working copy.
Snapshot(n, isQuery) == IF isQuery THEN n.committed ELSE n.working
Header(n, isQuery) == Snapshot(n, isQuery).height
Process(n, pid, isQuery) == Snapshot(n, isQuery).procs[pid]
\* The composite hash of the subtree roots.
AppHash(n, isQuery) ==
  LET s == Snapshot(n, isQuery)
  IN <<"hash", <<s.height, s.oracles, s.validators>>, s.procs, s.votes>>
EnvelopeExists(s, pid, nullifier) ==
  \E e \in s.votes : e.pid = pid /\ e.nullifier = nullifier

\* State.Store.Rollback: discards the pending writes since the last commit.
StoreRollback(n) == [n EXCEPT !.working = n.committed]
\* State.Store.Commit: persists the pending writes, advances the snapshot.
StoreCommit(n) == [n EXCEPT !.committed = n.working]

\* ------------------------------------------------------------- Scrutinizer

\* Whether a process computes live results: it is known and not encrypted.
isLiveResultsProcess(n, pid) ==
  LET p == Process(n, pid, FALSE)
  IN [err |-> p = NoProc, isLive |-> p # NoProc /\ ~IsEncrypted(p)]

addEntity(n, eid, pid) ==
  IF eid \in DOMAIN n.storeE
  THEN [n EXCEPT !.storeE = MapPut(n.storeE, eid, Append(n.storeE[eid], pid))]
  ELSE [n EXCEPT !.storeE = MapPut(n.storeE, eid, <<pid>>),
                 !.entityCount = @ + 1]

addLiveResultsProcess(n, pid) ==
  [n EXCEPT !.storeL = MapPut(n.storeL, pid, EmptyTally)]

registerPendingProcess(n, pid, height) ==
  [n EXCEPT !.storeP =
     MapPut(n.storeP, height,
            Append(IF height \in DOMAIN n.storeP THEN n.storeP[height] ELSE << >>, pid))]

\* Adds one vote to the live tally of its process; fails when the process
\* has no live tally or the vote package is malformed.
addLiveResultsVote(n, v) ==
  IF v.pid \in DOMAIN n.storeL /\ v.pkg \in {0, 1}
  THEN [err |-> FALSE,
        n |-> [n EXCEPT !.storeL = MapPut(n.storeL, v.pid, TallyAdd(n.storeL[v.pid], v.pkg))]]
  ELSE [err |-> TRUE, n |-> n]

\* The tally of a set of envelopes, each counted once.
RECURSIVE VoteResult(_)
VoteResult(envs) ==
  IF envs = {} THEN EmptyTally
  ELSE LET e == CHOOSE x \in envs : TRUE
       IN IF e.pkg \in {0, 1} THEN TallyAdd(VoteResult(envs \ {e}), e.pkg)
          ELSE VoteResult(envs \ {e})

EnvelopesOf(s, pid) == {e \in s.votes : e.pid = pid}

\* Final results of a process: the tally of its envelopes in the vote
\* subtree, stored under R and removed from L.
computeResult(n, pid) ==
  [n EXCEPT !.storeR = MapPut(n.storeR, pid, VoteResult(EnvelopesOf(n.committed, pid))),
            !.storeL = MapDel(n.storeL, pid),
            !.written = [@ EXCEPT ![pid] = @ + 1]]

RECURSIVE computeAll(_, _, _)
computeAll(n, list, i) ==
  IF i > Len(list) THEN n ELSE computeAll(computeResult(n, list[i]), list, i + 1)

\* The background task spawned by Commit.
checkFinishedProcesses(n, height) ==
  IF height \in DOMAIN n.storeP THEN computeAll(n, n.storeP[height], 1) ELSE n

\* go checkFinishedProcesses(height).  A task that finds no list under
\* P[height] returns at once, and P[height] is written only by the Commit of
\* a lower height, never after the spawn: such a task is not kept.
SpawnTask(n, height) ==
  IF height \in DOMAIN n.storeP
  THEN [n EXCEPT !.tasks = MapPut(n.tasks, height,
                               IF height \in DOMAIN n.tasks THEN n.tasks[height] + 1 ELSE 1)]
  ELSE n

\* A Commit that opens a live tally for every process of the block.
RECURSIVE CommitProcessPoolAllLive(_, _)
CommitProcessPoolAllLive(n, i) ==
  IF i > Len(n.processPool) THEN n
  ELSE LET p == n.processPool[i]
       IN CommitProcessPoolAllLive(addLiveResultsProcess(addEntity(n, p.eid, p.pid), p.pid), i + 1)

RECURSIVE CommitProcessPool(_, _)
CommitProcessPool(n, i) ==
  IF i > Len(n.processPool) THEN n
  ELSE LET p == n.processPool[i]
           n1 == addEntity(n, p.eid, p.pid)
           live == isLiveResultsProcess(n1, p.pid)
       IN IF live.err THEN CommitProcessPool(n1, i + 1)
          ELSE IF live.isLive THEN CommitProcessPool(addLiveResultsProcess(n1, p.pid), i + 1)
          ELSE CommitProcessPool(n1, i + 1)

\* A Commit that schedules every process of the block at the next block.
RECURSIVE CommitResultsPoolNextBlock(_, _, _)
CommitResultsPoolNextBlock(n, height, j) ==
  IF j > Len(n.resultsPool) THEN n
  ELSE CommitResultsPoolNextBlock(
         registerPendingProcess(n, n.resultsPool[j].pid, height + 1), height, j + 1)

\* A Commit that schedules the first process of the block at this block.
RECURSIVE CommitResultsPoolThisBlock(_, _, _)
CommitResultsPoolThisBlock(n, height, j) ==
  IF j > Len(n.resultsPool) THEN n
  ELSE CommitResultsPoolThisBlock(
         registerPendingProcess(n, n.resultsPool[j].pid, height + j - 1), height, j + 1)

\* resultsPool[i] (i from 0) is registered at height + i + 1; sequences
\* here are indexed from 1.
RECURSIVE CommitResultsPool(_, _, _)
CommitResultsPool(n, height, j) ==
  IF j > Len(n.resultsPool) THEN n
  ELSE CommitResultsPool(registerPendingProcess(n, n.resultsPool[j].pid, height + j),
                         height, j + 1)

RECURSIVE CommitVotePool(_, _)
CommitVotePool(n, i) ==
  IF i > Len(n.votePool) THEN n
  ELSE CommitVotePool(addLiveResultsVote(n, n.votePool[i]).n, i + 1)

\* List(max, from, prefix) with the entity prefix, no from key and the
\* largest int64 as max: every key under E.
ListEntities(n) == DOMAIN n.storeE

\* A restart that counts no entity.
NewScrutinizerCountingNone(n) ==
  [n EXCEPT !.votePool = << >>, !.processPool = << >>, !.resultsPool = << >>,
            !.tasks = EmptyMap, !.entityCount = 0]

\* NewScrutinizer: a Scrutinizer on the store of the last run; its pools are
\* empty, no task runs, and entityCount is the number of keys listed under E.
NewScrutinizer(n) ==
  [n EXCEPT !.votePool = << >>, !.processPool = << >>, !.resultsPool = << >>,
            !.tasks = EmptyMap,
            !.entityCount = Cardinality(ListEntities(n))]

\* Scrutinizer.Commit
ScrutinizerCommit(n, height) ==
  CommitVotePool(
    CommitResultsPool(CommitProcessPool(SpawnTask(n, height), 1), height, 1), 1)

\* A Rollback that resets the entity count too.
ScrutinizerRollbackResettingCount(n) ==
  [n EXCEPT !.votePool = << >>, !.processPool = << >>, !.resultsPool = << >>,
            !.entityCount = 0]

\* A Rollback that forgets the vote pool.
ScrutinizerRollbackKeepingVotes(n) ==
  [n EXCEPT !.processPool = << >>, !.resultsPool = << >>]

\* Scrutinizer.Rollback
ScrutinizerRollback(n) ==
  [n EXCEPT !.votePool = << >>, !.processPool = << >>, !.resultsPool = << >>]

\* An OnProcess that puts the new process in front of the pool.
OnProcessInFront(n, pid, eid) ==
  [n EXCEPT !.processPool = <<[eid |-> eid, pid |-> pid]>> \o @]

OnProcess(n, pid, eid) ==
  [n EXCEPT !.processPool = Append(@, [eid |-> eid, pid |-> pid])]

\* An OnVote that buffers the vote of every process.
OnVoteAll(n, v) == [n EXCEPT !.votePool = Append(@, v)]

OnVote(n, v) ==
  LET live == isLiveResultsProcess(n, v.pid)
  IN IF live.err THEN n
     ELSE IF live.isLive THEN [n EXCEPT !.votePool = Append(@, v)]
     ELSE n

OnCancel(n, pid) == n

OnProcessKeys(n, pid) == n

\* An OnRevealKeys that schedules the process at every reveal.
OnRevealKeysEveryReveal(n, pid) ==
  LET p == Process(n, pid, FALSE)
  IN IF p = NoProc THEN n
     ELSE [n EXCEPT !.resultsPool = Append(@, [eid |-> p.eid, pid |-> pid])]

OnRevealKeys(n, pid) ==
  LET p == Process(n, pid, FALSE)
  IN IF p = NoProc THEN n
     ELSE IF p.keyIndex < 1
          THEN [n EXCEPT !.resultsPool = Append(@, [eid |-> p.eid, pid |-> pid])]
          ELSE n

\* ------------------------------------------------------------------ State

\* State.Save: commits the store and tells the listeners the block height.
Save(n) ==
  LET n1 == StoreCommit(n)
  IN [hash |-> AppHash(n1, FALSE), n |-> ScrutinizerCommit(n1, Header(n1, FALSE))]

\* State.Rollback: tells the listeners and discards the working set.
Rollback(n) == StoreRollback(ScrutinizerRollback(n))

\* Removes the vote cache entries with a height up to the given one.
VoteCachePurge(n, height) ==
  [n EXCEPT !.voteCache =
     [u \in {x \in DOMAIN n.voteCache : n.voteCache[x].height > height} |-> n.voteCache[u]]]

\* ------------------------------------------- Transaction codec and validator

TxTypes ==
  {"vote", "newProcess", "cancelProcess", "addValidator", "removeValidator",
   "addOracle", "removeOracle", "addProcessKeys", "revealProcessKeys"}

\* The error kinds of validation; NoErr stands for Go's nil error.
NoErr == "nil"

\* UnmarshalTx: fails on bytes that decode to no known transaction type.
UnmarshalTx(tx) ==
  [err |-> IF tx.type \in TxTypes THEN NoErr ELSE "InvalidType", tx |-> tx]

\* The checks of a vote, in the order of section 4.2.  The signature and the
\* census proof are not recomputed when the tx's uniq-id is in the vote cache.
VoteTxCheck(n, tx, s) ==
  LET p == s.procs[tx.pid]
      cached == UniqID(tx, p.ptype) \in DOMAIN n.voteCache
  IN CASE p = NoProc -> "UnknownProcess"
       [] p.canceled -> "ProcessCanceled"
       [] s.height < p.startBlock -> "ProcessNotActive"
       [] s.height > p.startBlock + p.numberOfBlocks -> "ProcessNotActive"
       [] RequireKeys(p) /\ p.keyIndex > 0 -> "MissingEncryptionKeys"
       [] ~cached /\ ~SignatureOK(tx) -> "BadSignature"
       [] EnvelopeExists(s, tx.pid, GenerateNullifier(tx.voter, tx.pid)) -> "DuplicateVote"
       [] ~cached /\ ~tx.proofOK -> "BadProof"
       [] OTHER -> NoErr

NewProcessTxCheck(tx, s) ==
  CASE tx.signer \notin s.oracles -> "Unauthorized"
    [] s.procs[tx.pid] # NoProc -> "MalformedTx"
    [] tx.startBlock <= s.height -> "MalformedTx"
    [] tx.numberOfBlocks <= 0 -> "MalformedTx"
    [] OTHER -> NoErr

CancelProcessTxCheck(tx, s) ==
  CASE tx.signer \notin s.oracles -> "Unauthorized"
    [] s.procs[tx.pid] = NoProc -> "UnknownProcess"
    [] s.procs[tx.pid].canceled -> "ProcessCanceled"
    [] OTHER -> NoErr

\* addProcessKeys publishes the keys of the next free slot; revealProcessKeys
\* needs a published slot that is not revealed yet, and decrements KeyIndex.
AdminTxCheck(tx, s) ==
  LET p == s.procs[tx.pid]
  IN CASE tx.signer \notin s.oracles -> "Unauthorized"
       [] tx.type \in {"addValidator", "removeValidator", "addOracle", "removeOracle"} -> NoErr
       [] p = NoProc -> "UnknownProcess"
       [] ~RequireKeys(p) -> "BadKeyIndex"
       [] tx.type = "addProcessKeys" /\ p.published >= KeyHoldersOf(tx.pid) -> "BadKeyIndex"
       [] tx.type = "revealProcessKeys" /\ p.keyIndex <= 0 -> "BadKeyIndex"
       [] tx.type = "revealProcessKeys" /\ KeyHoldersOf(tx.pid) - p.keyIndex >= p.published -> "BadKeyIndex"
       [] OTHER -> NoErr

ValidateTx(n, tx, s) ==
  CASE tx.type = "vote" -> VoteTxCheck(n, tx, s)
    [] tx.type = "newProcess" -> NewProcessTxCheck(tx, s)
    [] tx.type = "cancelProcess" -> CancelProcessTxCheck(tx, s)
    [] OTHER -> AdminTxCheck(tx, s)

NewProcess(tx) ==
  [ptype |-> tx.ptype, eid |-> tx.eid, startBlock |-> tx.startBlock,
   numberOfBlocks |-> tx.numberOfBlocks, canceled |-> FALSE,
   keyIndex |-> IF ProcessRequireKeys(tx.ptype) THEN KeyHoldersOf(tx.pid) ELSE 0,
   published |-> 0]

NewVote(tx, height) ==
  [pid |-> tx.pid, nullifier |-> GenerateNullifier(tx.voter, tx.pid),
   pkg |-> tx.pkg, height |-> height]

\* The state mutation of an accepted tx and the event it emits.
ApplyTx(n, tx) ==
  CASE tx.type = "vote" ->
         LET v == NewVote(tx, n.working.height)
         IN OnVote([n EXCEPT !.working.votes = @ \cup {v},
                             !.voteCache =
                               MapDel(@, UniqID(tx, n.working.procs[tx.pid].ptype))], v)
    [] tx.type = "newProcess" ->
         OnProcess([n EXCEPT !.working.procs[tx.pid] = NewProcess(tx)], tx.pid, tx.eid)
    [] tx.type = "cancelProcess" ->
         OnCancel([n EXCEPT !.working.procs[tx.pid].canceled = TRUE], tx.pid)
    [] tx.type = "addValidator" ->
         [n EXCEPT !.working.validators =
            {v \in @ : v.pubKey # tx.pubKey} \cup {[pubKey |-> tx.pubKey, power |-> tx.power]}]
    [] tx.type = "removeValidator" ->
         [n EXCEPT !.working.validators = {v \in @ : v.pubKey # tx.pubKey}]
    [] tx.type = "addOracle" ->
         [n EXCEPT !.working.oracles = @ \cup {tx.address}]
    [] tx.type = "removeOracle" ->
         [n EXCEPT !.working.oracles = @ \ {tx.address}]
    [] tx.type = "addProcessKeys" ->
         OnProcessKeys([n EXCEPT !.working.procs[tx.pid].published = @ + 1], tx.pid)
    [] OTHER ->
         OnRevealKeys([n EXCEPT !.working.procs[tx.pid].keyIndex = @ - 1], tx.pid)

\* AddTx(tx, state, commit): validates against the committed snapshot when
\* checking and against the working copy when delivering; with commit it
\* applies the mutation, without it a valid vote is stored in the vote cache.
AddTx(n, tx, commit) ==
  LET s == Snapshot(n, ~commit)
      err == ValidateTx(n, tx, s)
  IN IF err # NoErr THEN [err |-> err, n |-> n]
     ELSE IF commit THEN [err |-> NoErr, n |-> ApplyTx(n, tx)]
     ELSE IF tx.type = "vote"
          THEN [err |-> NoErr,
                n |-> [n EXCEPT !.voteCache =
                         MapPut(@, UniqID(tx, s.procs[tx.pid].ptype),
                                [height |-> s.height])]]
          ELSE [err |-> NoErr, n |-> n]

\* ------------------------------------------------------------ Application

\* A response: the handler, its code and data, and for Info and Commit the
\* height and app-hash.
NoResp == [op |-> "none", code |-> 0, data |-> NoErr, height |-> 0, hash |-> << >>]
Response(op, err) ==
  [NoResp EXCEPT !.op = op, !.code = IF err = NoErr THEN 0 ELSE 1, !.data = err]

\* Info
Info(n) ==
  LET height == Header(n, FALSE)
      n1 == Rollback(n)
      hash == AppHash(n1, FALSE)
  IN [n |-> n1, resp |-> [NoResp EXCEPT !.op = "Info", !.height = height, !.hash = hash]]

\* InitChain: installs the genesis oracles and validators, writes the
\* zero-height header and saves.
InitChain(n) ==
  LET n1 == [n EXCEPT !.working.oracles = @ \cup GenesisOracles,
                      !.working.validators = @ \cup GenesisValidators]
      n2 == [n1 EXCEPT !.working.height = 0]
  IN [n |-> Save(n2).n, resp |-> [NoResp EXCEPT !.op = "InitChain"]]

\* The height BeginBlock hands to VoteCachePurge.
BeginBlockPurgeHeight(n) == Header(n, TRUE)

\* BeginBlock
BeginBlock(n, h) ==
  LET n1 == Rollback(n)
      n2 == [n1 EXCEPT !.working.height = h]
      n3 == VoteCachePurge(n2, BeginBlockPurgeHeight(n2))
  IN [n |-> n3, resp |-> [NoResp EXCEPT !.op = "BeginBlock", !.height = h]]

\* A CheckTx that hands AddTx the commit flag of DeliverTx.
CheckTxCommitLikeDeliver == TRUE

\* A DeliverTx that hands AddTx the commit flag of CheckTx.
DeliverTxCommitLikeCheck == FALSE

\* The commit flag CheckTx and DeliverTx hand to AddTx.
CheckTxCommit == FALSE
DeliverTxCommit == TRUE

\* A CheckTx that caches the vote whatever the result of AddTx.
CheckTxCachingRejected(n, tx, recheck) ==
  LET u == UnmarshalTx(tx)
      r == AddTx(n, u.tx, CheckTxCommit)
      c == IF u.err = NoErr /\ tx.type = "vote"
           THEN [n EXCEPT !.voteCache =
                   MapPut(@, UniqID(tx, PollVote), [height |-> Header(n, TRUE)])]
           ELSE n
  IN [n |-> c, resp |-> Response("CheckTx", IF u.err = NoErr THEN r.err ELSE u.err)]

\* A CheckTx that accepts every tx.
CheckTxAcceptingAll(n, tx, recheck) ==
  [n |-> n, resp |-> Response("CheckTx", NoErr)]

\* A CheckTx that validates a Recheck request like a new one.
CheckTxValidatingRecheck(n, tx, recheck) ==
  LET u == UnmarshalTx(tx)
      r == AddTx(n, u.tx, CheckTxCommit)
  IN IF u.err = NoErr
     THEN [n |-> r.n, resp |-> Response("CheckTx", r.err)]
     ELSE [n |-> n, resp |-> Response("CheckTx", u.err)]

\* CheckTx
CheckTx(n, tx, recheck) ==
  IF recheck THEN [n |-> n, resp |-> Response("Recheck", NoErr)]
  ELSE LET u == UnmarshalTx(tx)
           r == AddTx(n, u.tx, CheckTxCommit)
       IN IF u.err = NoErr
          THEN IF r.err # NoErr
               THEN [n |-> r.n, resp |-> Response("CheckTx", r.err)]
               ELSE [n |-> r.n, resp |-> Response("CheckTx", NoErr)]
          ELSE [n |-> n, resp |-> Response("CheckTx", u.err)]

\* DeliverTx that answers code 0 when AddTx fails.
DeliverTxIgnoringError(n, tx) ==
  LET u == UnmarshalTx(tx)
      r == AddTx(n, u.tx, DeliverTxCommit)
  IN IF u.err = NoErr
     THEN [n |-> r.n, resp |-> Response("DeliverTx", NoErr)]
     ELSE [n |-> n, resp |-> Response("DeliverTx", u.err)]

\* DeliverTx
DeliverTx(n, tx) ==
  LET u == UnmarshalTx(tx)
      r == AddTx(n, u.tx, DeliverTxCommit)
  IN IF u.err = NoErr
     THEN IF r.err # NoErr
          THEN [n |-> r.n, resp |-> Response("DeliverTx", r.err)]
          ELSE [n |-> r.n, resp |-> Response("DeliverTx", NoErr)]
     ELSE [n |-> n, resp |-> Response("DeliverTx", u.err)]

\* A Commit that returns the app-hash of the snapshot it found.
CommitStaleHash(n) ==
  [n |-> Save(n).n,
   resp |-> [NoResp EXCEPT !.op = "Commit", !.hash = AppHash(n, TRUE)]]

\* Commit
Commit(n) ==
  LET r == Save(n)
  IN [n |-> r.n, resp |-> [NoResp EXCEPT !.op = "Commit", !.hash = r.hash]]

\* One spawned checkFinishedProcesses(height) runs to its end.
RunTask(n, height) ==
  LET n1 == checkFinishedProcesses(n, height)
  IN [n1 EXCEPT !.tasks = IF n.tasks[height] > 1
                          THEN MapPut(n.tasks, height, n.tasks[height] - 1)
                          ELSE MapDel(n.tasks, height)]

\* ------------------------------------ Application, the plain JSON variant

\* Info: reads the height and the app-hash kept in the app tree; it does not
\* roll back.
LegacyInfo(n) ==
  [n |-> n,
   resp |-> [NoResp EXCEPT !.op = "Info", !.height = Header(n, FALSE),
                           !.hash = AppHash(n, TRUE)]]

\* InitChain
LegacyInitChain(n) ==
  LET n1 == [n EXCEPT !.working.oracles = @ \cup GenesisOracles,
                      !.working.validators = @ \cup GenesisValidators]
      n2 == [n1 EXCEPT !.working.height = 0]
  IN [n |-> Save(n2).n, resp |-> [NoResp EXCEPT !.op = "InitChain"]]

\* BeginBlock: rolls back only when the state is not locked.
LegacyBeginBlock(n, h) ==
  LET n1 == IF n.lock THEN n ELSE Rollback([n EXCEPT !.lock = TRUE])
      n2 == [n1 EXCEPT !.working.height = h]
  IN [n |-> n2, resp |-> [NoResp EXCEPT !.op = "BeginBlock", !.height = h]]

\* CheckTx: ValidateTx(tx, state), which changes nothing.
LegacyCheckTx(n, tx) ==
  LET u == UnmarshalTx(tx)
      err == IF u.err = NoErr THEN ValidateTx(n, u.tx, Snapshot(n, TRUE)) ELSE u.err
  IN IF err # NoErr
     THEN [n |-> n, resp |-> Response("CheckTx", err)]
     ELSE [n |-> n, resp |-> Response("CheckTx", NoErr)]

\* DeliverTx: ValidateAndDeliverTx(tx, state)
LegacyDeliverTx(n, tx) ==
  LET u == UnmarshalTx(tx)
      r == IF u.err = NoErr THEN AddTx(n, u.tx, TRUE) ELSE [err |-> u.err, n |-> n]
  IN IF r.err # NoErr
     THEN [n |-> r.n, resp |-> Response("DeliverTx", r.err)]
     ELSE [n |-> r.n, resp |-> Response("DeliverTx", NoErr)]

\* Commit: saves, unlocks and returns the hash.
LegacyCommit(n) ==
  LET n1 == Save(n).n
      n2 == [n1 EXCEPT !.lock = FALSE]
  IN [n |-> n2, resp |-> [NoResp EXCEPT !.op = "Commit", !.hash = AppHash(n2, TRUE)]]

\* ------------------------------------------------------------ the machine

NoBegin == [height |-> 0, purge |-> 0]

Init ==
  /\ working = EmptySnapshot
  /\ committed = EmptySnapshot
  /\ voteCache = EmptyMap
  /\ votePool = << >>
  /\ processPool = << >>
  /\ resultsPool = << >>
  /\ storeL = EmptyMap
  /\ storeE = EmptyMap
  /\ storeP = EmptyMap
  /\ storeR = EmptyMap
  /\ entityCount = 0
  /\ tasks = EmptyMap
  /\ resp = NoResp
  /\ lastBegin = NoBegin
  /\ commits = 0
  /\ recommits = 0
  /\ written = [p \in PIDs |-> 0]
  /\ lock = FALSE
  /\ manager = NoManager
  /\ router = NoRouter
  /\ txs \in Workloads

Initialized == committed.oracles # {}

DoInfo ==
  /\ LET r == Info(Node) IN Install(r.n) /\ resp' = r.resp
  /\ UNCHANGED <<lastBegin, commits, recommits, txs, manager, router>>

DoInitChain ==
  /\ ~Initialized
  /\ LET r == InitChain(Node) IN Install(r.n) /\ resp' = r.resp
  /\ commits' = 1
  /\ UNCHANGED <<lastBegin, recommits, txs, manager, router>>

\* The consensus engine begins the block after the last committed one.
DoBeginBlock ==
  /\ Initialized
  /\ committed.height < MaxHeight
  /\ LET r == BeginBlock(Node, committed.height + 1)
     IN /\ Install(r.n)
        /\ resp' = r.resp
        /\ lastBegin' = [height |-> committed.height + 1,
                         purge |-> BeginBlockPurgeHeight(Rollback(Node))]
  /\ UNCHANGED <<commits, recommits, txs, manager, router>>

DoCheckTx ==
  /\ Initialized
  /\ \E tx \in txs, recheck \in BOOLEAN :
       LET r == CheckTx(Node, tx, recheck) IN Install(r.n) /\ resp' = r.resp
  /\ UNCHANGED <<lastBegin, commits, recommits, txs, manager, router>>

DoDeliverTx ==
  /\ Initialized
  /\ \E tx \in txs :
       LET r == DeliverTx(Node, tx) IN Install(r.n) /\ resp' = r.resp
  /\ UNCHANGED <<lastBegin, commits, recommits, txs, manager, router>>

DoCommit ==
  /\ Initialized
  /\ working.height > committed.height \/ recommits < MaxRecommits
  /\ LET r == Commit(Node) IN Install(r.n) /\ resp' = r.resp
  /\ commits' = IF working.height > committed.height THEN 1 ELSE commits + 1
  /\ recommits' = IF working.height > committed.height THEN recommits ELSE recommits + 1
  /\ UNCHANGED <<lastBegin, txs, manager, router>>

DoRunTask ==
  /\ \E h \in DOMAIN tasks : Install(RunTask(Node, h))
  /\ UNCHANGED <<resp, lastBegin, commits, recommits, txs, manager, router>>

Next ==
  \/ DoInfo
  \/ DoInitChain
  \/ DoBeginBlock
  \/ DoCheckTx
  \/ DoDeliverTx
  \/ DoCommit
  \/ DoRunTask

Spec == Init /\ [][Next]_vars

\* The machine of the plain JSON variant.
DoLegacyInfo ==
  /\ LET r == LegacyInfo(Node) IN Install(r.n) /\ resp' = r.resp
  /\ UNCHANGED <<lastBegin, commits, recommits, txs, manager, router>>

DoLegacyInitChain ==
  /\ ~Initialized
  /\ LET r == LegacyInitChain(Node) IN Install(r.n) /\ resp' = r.resp
  /\ commits' = 1
  /\ UNCHANGED <<lastBegin, recommits, txs, manager, router>>

DoLegacyBeginBlock ==
  /\ Initialized
  /\ committed.height < MaxHeight
  /\ LET r == LegacyBeginBlock(Node, committed.height + 1)
     IN /\ Install(r.n)
        /\ resp' = r.resp
        /\ lastBegin' = [height |-> committed.height + 1, purge |-> 0]
  /\ UNCHANGED <<commits, recommits, txs, manager, router>>

DoLegacyCheckTx ==
  /\ Initialized
  /\ \E tx \in txs :
       LET r == LegacyCheckTx(Node, tx) IN Install(r.n) /\ resp' = r.resp
  /\ UNCHANGED <<lastBegin, commits, recommits, txs, manager, router>>

DoLegacyDeliverTx ==
  /\ Initialized
  /\ \E tx \in txs :
       LET r == LegacyDeliverTx(Node, tx) IN Install(r.n) /\ resp' = r.resp
  /\ UNCHANGED <<lastBegin, commits, recommits, txs, manager, router>>

DoLegacyCommit ==
  /\ Initialized
  /\ working.height > committed.height \/ recommits < MaxRecommits
  /\ LET r == LegacyCommit(Node) IN Install(r.n) /\ resp' = r.resp
  /\ commits' = IF working.height > committed.height THEN 1 ELSE commits + 1
  /\ recommits' = IF working.height > committed.height THEN recommits ELSE recommits + 1
  /\ UNCHANGED <<lastBegin, txs, manager, router>>

NextLegacy ==
  \/ DoLegacyInfo
  \/ DoLegacyInitChain
  \/ DoLegacyBeginBlock
  \/ DoLegacyCheckTx
  \/ DoLegacyDeliverTx
  \/ DoLegacyCommit
  \/ DoRunTask

SpecLegacy == Init /\ [][NextLegacy]_vars

\* ------------------------------------------------------------------ claims

\* C1: at most one vote envelope is persisted per (ProcessID, Nullifier), in
\* the working set and in the committed snapshot; DeliverTx of a vote whose
\* (ProcessID, Nullifier) already has an envelope returns a non-zero code
\* and leaves the envelopes, the vote pool and the tallies unchanged.
C1_OneEnvelopePerNullifier ==
  /\ \A s \in {working, committed} : \A e1, e2 \in s.votes :
       e1.pid = e2.pid /\ e1.nullifier = e2.nullifier => e1 = e2
  /\ \A tx \in txs :
       tx.type = "vote" /\ EnvelopeExists(working, tx.pid, GenerateNullifier(tx.voter, tx.pid))
       => LET r == DeliverTx(Node, tx)
          IN /\ r.resp.code # 0
             /\ r.n.working = working
             /\ r.n.votePool = votePool
             /\ r.n.storeL = storeL
             /\ r.n.storeR = storeR

\* A vote was rejected as a duplicate while its voter's envelope, with
\* another vote package, is stored.
C1_Witness ==
  /\ resp.op = "DeliverTx"
  /\ resp.data = "DuplicateVote"
  /\ \E e \in working.votes : e.nullifier = GenerateNullifier("v1", "p1")

\* The transactions of a list, delivered in order.
RECURSIVE DeliverAll(_, _, _)
DeliverAll(n, T, i) ==
  IF i > Len(T) THEN n ELSE DeliverAll(DeliverTx(n, T[i]).n, T, i + 1)

\* The lists of at most two transactions of a set.
BlockLists(S) == {<< >>} \cup {<<a>> : a \in S} \cup {<<a, b>> : a \in S, b \in S}

\* What Commit leaves behind: the committed State Store, the app-hash it
\* returned and the Scrutinizer store.
Committed(r) ==
  [store |-> r.n.committed, hash |-> r.resp.hash, L |-> r.n.storeL, E |-> r.n.storeE,
   P |-> r.n.storeP, R |-> r.n.storeR, entityCount |-> r.n.entityCount]

\* C2: in a block begun by BeginBlock(h), for every list T of transactions:
\* DeliverTx(T), a rollback by BeginBlock(h) (State.Rollback, which includes
\* Scrutinizer.Rollback), DeliverTx(T) again and Commit leave the same
\* committed State Store, app-hash and Scrutinizer store (L, E, P, R,
\* entityCount) as DeliverTx(T) once and Commit.
C2_RollbackRedeliver ==
  resp.op = "BeginBlock" =>
    \A T \in BlockLists(txs) :
      LET once == DeliverAll(Node, T, 1)
          again == DeliverAll(BeginBlock(once, working.height).n, T, 1)
      IN Committed(Commit(again)) = Committed(Commit(once))

\* A block was begun in which a vote of a live-results process is accepted,
\* so that the vote pool and the vote subtree are written before the rollback.
C2_Witness ==
  /\ resp.op = "BeginBlock"
  /\ \E tx \in txs :
       /\ tx.type = "vote"
       /\ DeliverTx(Node, tx).resp.code = 0
       /\ tx.pid \in DOMAIN storeL
  /\ \E T \in BlockLists(txs) :
       Committed(Commit(DeliverAll(Node, T, 1))).L # storeL

\* C3: after every Commit the live tally L[P] of every live-results process
\* P is the tally of exactly the envelopes of P in the committed vote
\* subtree (those accepted by DeliverTx up to the committed height), each
\* counted once.
C3_LiveTally ==
  resp.op = "Commit" =>
    \A pid \in DOMAIN storeL : storeL[pid] = VoteResult(EnvelopesOf(committed, pid))

\* C4: once the final-tally task of a process P has run, R[P] has been
\* written exactly once and equals the tally of all envelopes of P in the
\* committed vote subtree, so no envelope of P is accepted after the tally
\* that produced R[P].
C4_FinalResults ==
  \A pid \in DOMAIN storeR :
    /\ written[pid] = 1
    /\ storeR[pid] = VoteResult(EnvelopesOf(committed, pid))

C6_InfoCommitted ==
  resp.op = "Info" =>
    /\ resp.height = committed.height
    /\ resp.hash = AppHash(Node, TRUE)
    /\ working = committed

\* C7: when BeginBlock returns, the working set holds nothing but the last
\* committed snapshot and the new header, so no write of a DeliverTx that
\* was not followed by Commit is committed later.
C7_BeginBlockDiscards ==
  resp.op = "BeginBlock" => [working EXCEPT !.height = committed.height] = committed

\* C8: BeginBlock(h) hands VoteCachePurge the bound h, and when it returns
\* the vote cache holds no entry of a height up to h.
C8_PurgeBound ==
  resp.op = "BeginBlock" =>
    /\ lastBegin.purge = lastBegin.height
    /\ \A u \in DOMAIN voteCache : voteCache[u].height > lastBegin.height

C10_CheckTxFrame ==
  \A tx \in txs, recheck \in BOOLEAN :
    LET r == CheckTx(Node, tx, recheck)
    IN /\ r.n.working = working /\ r.n.committed = committed
       /\ AppHash(r.n, FALSE) = AppHash(Node, FALSE)
       /\ AppHash(r.n, TRUE) = AppHash(Node, TRUE)
       /\ r.n.votePool = votePool /\ r.n.processPool = processPool
       /\ r.n.resultsPool = resultsPool
       /\ [r.n EXCEPT !.voteCache = voteCache] = Node
       /\ DOMAIN voteCache \subseteq DOMAIN r.n.voteCache
       /\ Cardinality({u \in DOMAIN r.n.voteCache :
                         u \notin DOMAIN voteCache \/ r.n.voteCache[u] # voteCache[u]}) <= 1
       /\ r.n.voteCache # voteCache => r.resp.code = 0

C10_Witness ==
  /\ resp.op = "CheckTx" /\ resp.code = 0
  /\ voteCache # EmptyMap
  /\ working.votes # committed.votes
  /\ \E tx \in txs : CheckTx(Node, tx, FALSE).resp.code # 0

\* C11: a CheckTx of type Recheck answers code 0 for every tx, valid,
\* invalid or undecodable, and changes nothing: neither the State Store nor
\* the vote cache.
C11_RecheckNoOp ==
  \A tx \in txs :
    LET r == CheckTx(Node, tx, TRUE)
    IN r.resp.code = 0 /\ r.n = Node

C11_Witness ==
  /\ resp.op = "Recheck" /\ resp.code = 0
  /\ voteCache # EmptyMap
  /\ GarbageTx \in txs
  /\ \E tx \in txs : UnmarshalTx(tx).err = NoErr /\ CheckTx(Node, tx, FALSE).resp.code # 0

\* C12: DeliverTx answers code 0 exactly when the tx decodes and its
\* validation on the working set succeeds, and then the node is the one the
\* mutation and its event give; with a non-zero code the node is unchanged
\* (working set, listener buffers), so the other txs of the block get the
\* results they would have got without it.  Both variants of the application
\* agree.
C12_DeliverTxResult ==
  \A tx \in txs :
    LET r == DeliverTx(Node, tx)
        u == UnmarshalTx(tx)
        ok == u.err = NoErr /\ ValidateTx(Node, u.tx, working) = NoErr
    IN /\ r.resp.code = 0 <=> ok
       /\ ok => r.n = ApplyTx(Node, u.tx)
       /\ ~ok => r.n = Node
       /\ LegacyDeliverTx(Node, tx).resp.code = r.resp.code
       /\ LegacyDeliverTx(Node, tx).n = r.n

C12_Witness ==
  /\ resp.op = "DeliverTx" /\ resp.code # 0
  /\ votePool # << >>
  /\ working.votes # committed.votes
  /\ \E tx \in txs : DeliverTx(Node, tx).resp.code = 0

C14_CacheIndependence ==
  \A tx \in txs :
    LET a == DeliverTx(Node, tx)
        b == DeliverTx([Node EXCEPT !.voteCache = EmptyMap], tx)
    IN /\ a.resp.code = b.resp.code
       /\ Commit(a.n).resp.hash = Commit(b.n).resp.hash

\* C15: Scrutinizer.Rollback empties processPool, votePool and resultsPool
\* and changes nothing else: the store (P, L, E, R) and entityCount stay.
C15_RollbackFrame ==
  LET r == ScrutinizerRollback(Node)
  IN /\ r.processPool = << >> /\ r.votePool = << >> /\ r.resultsPool = << >>
     /\ r.storeP = storeP /\ r.storeL = storeL /\ r.storeE = storeE /\ r.storeR = storeR
     /\ r.entityCount = entityCount
     /\ [r EXCEPT !.processPool = processPool, !.votePool = votePool,
                  !.resultsPool = resultsPool] = Node

C15_Witness ==
  /\ votePool # << >>
  /\ storeL # EmptyMap /\ storeE # EmptyMap /\ entityCount > 0
  /\ ScrutinizerRollback(Node) # Node

\* C16: when Commit returns, the per-block buffers of the Scrutinizer
\* (processPool, votePool, resultsPool) are empty.
C16_CommitDrains ==
  resp.op = "Commit" =>
    processPool = << >> /\ votePool = << >> /\ resultsPool = << >>

\* ------------------------------------- the application and its Scrutinizer

\* A node as NewBaseApplication and NewScrutinizer leave it.
NewNode ==
  [working |-> EmptySnapshot, committed |-> EmptySnapshot, voteCache |-> EmptyMap,
   votePool |-> << >>, processPool |-> << >>, resultsPool |-> << >>,
   storeL |-> EmptyMap, storeE |-> EmptyMap, storeP |-> EmptyMap, storeR |-> EmptyMap,
   entityCount |-> 0, tasks |-> EmptyMap, written |-> [p \in PIDs |-> 0],
   lock |-> FALSE]

\* The first transactions of a chain with three processes: the poll-vote p1
\* of entity e1 and the encrypted polls p2 and p3 of entity e2, whose
\* key-holder publishes their keys.
FirstTxs ==
  <<NewProcessTx("p1", "o1"), NewProcessTx("p2", "o1"), NewProcessTx("p3", "o1"),
    AdminTx("addProcessKeys", "p2"), AdminTx("addProcessKeys", "p3")>>

\* The node after InitChain, BeginBlock(1) and DeliverTx of FirstTxs.
FirstBlock == DeliverAll(BeginBlock(InitChain(NewNode).n, 1).n, FirstTxs, 1)

\* The transactions that follow: the keys of p2 and p3 are revealed and a
\* voter of p1 votes.
ScrutinizerTxs ==
  {AdminTx("revealProcessKeys", "p2"), AdminTx("revealProcessKeys", "p3"),
   VoteTx("p1", "v1", 1, TRUE)}

\* The run starts in the first block, after FirstTxs.
InitScrutinizer ==
  /\ working = FirstBlock.working
  /\ committed = FirstBlock.committed
  /\ voteCache = FirstBlock.voteCache
  /\ votePool = FirstBlock.votePool
  /\ processPool = FirstBlock.processPool
  /\ resultsPool = FirstBlock.resultsPool
  /\ storeL = FirstBlock.storeL
  /\ storeE = FirstBlock.storeE
  /\ storeP = FirstBlock.storeP
  /\ storeR = FirstBlock.storeR
  /\ entityCount = FirstBlock.entityCount
  /\ tasks = FirstBlock.tasks
  /\ resp = DeliverTx(FirstBlock, FirstTxs[Len(FirstTxs)]).resp
  /\ lastBegin = [height |-> 1, purge |-> 0]
  /\ commits = 1
  /\ recommits = 0
  /\ written = FirstBlock.written
  /\ lock = FirstBlock.lock
  /\ manager = NoManager
  /\ router = NoRouter
  /\ txs = ScrutinizerTxs

\* The node restarts: NewBaseApplication on the committed State Store, with
\* an empty vote cache, and NewScrutinizer on the same store.
DoRestart ==
  /\ Install(NewScrutinizer(StoreRollback([Node EXCEPT !.voteCache = EmptyMap,
                                                        !.lock = FALSE])))
  /\ resp' = [NoResp EXCEPT !.op = "NewScrutinizer"]
  /\ UNCHANGED <<lastBegin, commits, recommits, txs, manager, router>>

NextScrutinizer ==
  \/ DoBeginBlock
  \/ DoDeliverTx
  \/ DoCommit
  \/ DoRunTask
  \/ DoRestart

SpecScrutinizer == InitScrutinizer /\ [][NextScrutinizer]_vars

\* C17: Scrutinizer.Commit(height) registers the element at index i (from 0)
\* of resultsPool for final computation at block height + i + 1; here the
\* pool is indexed from 1, so element j goes to block height + j.  Each
\* element adds one entry, the blocks of two elements differ, every block is
\* later than height, and no other list under P changes.
C17_StaggeredResults ==
  \A h \in 1..MaxHeight :
    LET r == ScrutinizerCommit(Node, h)
        len == Len(resultsPool)
        Old(b) == IF b \in DOMAIN storeP THEN storeP[b] ELSE << >>
    IN /\ \A j \in 1..len :
            /\ h + j \in DOMAIN r.storeP
            /\ r.storeP[h + j] = Append(Old(h + j), resultsPool[j].pid)
            /\ h + j > h
            /\ \A k \in 1..len : k # j => h + k # h + j
       /\ \A b \in DOMAIN r.storeP :
            b \notin (h + 1)..(h + len) => b \in DOMAIN storeP /\ r.storeP[b] = storeP[b]

\* A Commit has registered two processes whose keys were revealed in one
\* block, the first for the next block and the second for the one after it.
C17_Witness ==
  /\ resp.op = "Commit"
  /\ Len(resultsPool) = 2
  /\ resultsPool[1].pid # resultsPool[2].pid
  /\ committed.height + 2 \in DOMAIN storeP
  /\ storeP[committed.height + 1] = <<resultsPool[1].pid>>
  /\ storeP[committed.height + 2] = <<resultsPool[2].pid>>

\* C18: entityCount is the number of keys under E, in every state and so
\* after every Commit and after every restart (NewScrutinizer on the same
\* store).  The keys under E are the EntityIDs of the committed NewProcess
\* events: a Commit adds the entities of its processPool, each counted once
\* however many processes it created, and the events of a pool that was
\* rolled back add nothing.
C18_EntityCount ==
  /\ entityCount = Cardinality(DOMAIN storeE)
  /\ NewScrutinizer(Node).entityCount = Cardinality(DOMAIN storeE)
  /\ NewScrutinizer(Node).storeE = storeE
  /\ \A h \in 1..MaxHeight :
       LET r == ScrutinizerCommit(Node, h)
           seen == {processPool[i].eid : i \in 1..Len(processPool)}
           back == ScrutinizerCommit(ScrutinizerRollback(Node), h)
       IN /\ DOMAIN r.storeE = DOMAIN storeE \cup seen
          /\ r.entityCount = Cardinality(DOMAIN storeE \cup seen)
          /\ back.storeE = storeE
          /\ back.entityCount = entityCount

\* The node restarted on a store with three processes of two entities.
C18_Witness ==
  /\ resp.op = "NewScrutinizer"
  /\ entityCount = 2
  /\ \E e \in DOMAIN storeE : Len(storeE[e]) = 2 /\ storeE[e][1] # storeE[e][2]
  /\ \E e \in DOMAIN storeE : Len(storeE[e]) = 1

\* b is a with zero or more elements appended at its end.
Extends(a, b) == Len(a) <= Len(b) /\ SubSeq(b, 1, Len(a)) = a

\* C19: the buffers keep the order of the events.  OnProcess, OnVote and
\* OnRevealKeys put their element, when they buffer one, at the end of their
\* pool, so of two events of one kind the earlier one has the lower index; a
\* step of the node changes a pool only by extending it at its end or, in
\* Rollback and at a restart, by emptying it; and Commit applies processPool
\* in index order: the list of an entity under E gains the processes of the
\* pool that belong to it, in the order of their indexes.
C19_BufferOrder ==
  /\ [](/\ \A p \in PIDs, q \in PIDs, e \in {"e1", "e2"}, f \in {"e1", "e2"} :
              OnProcess(OnProcess(Node, p, e), q, f).processPool
                = processPool \o <<[eid |-> e, pid |-> p], [eid |-> f, pid |-> q]>>
        /\ \A p \in PIDs, a \in Voters, b \in Voters :
              LET v == NewVote(VoteTx(p, a, 1, TRUE), working.height)
                  w == NewVote(VoteTx(p, b, 0, TRUE), working.height)
              IN OnVote(OnVote(Node, v), w).votePool
                   = IF isLiveResultsProcess(Node, p).isLive
                     THEN votePool \o <<v, w>> ELSE votePool
        /\ \A p \in PIDs, q \in PIDs :
              LET Revealed(x) == Process(Node, x, FALSE) # NoProc
                                   /\ Process(Node, x, FALSE).keyIndex < 1
                  El(x) == IF Revealed(x)
                           THEN <<[eid |-> Process(Node, x, FALSE).eid, pid |-> x]>>
                           ELSE << >>
              IN OnRevealKeys(OnRevealKeys(Node, p), q).resultsPool
                   = resultsPool \o El(p) \o El(q)
        /\ \A h \in 1..MaxHeight :
              LET r == ScrutinizerCommit(Node, h)
              IN \A e \in DOMAIN r.storeE :
                   LET Of(p) == p.eid = e
                       sel == SelectSeq(processPool, Of)
                       old == IF e \in DOMAIN storeE THEN storeE[e] ELSE << >>
                   IN r.storeE[e] = old \o [i \in 1..Len(sel) |-> sel[i].pid])
  /\ [][/\ Extends(processPool, processPool') \/ processPool' = << >>
        /\ Extends(votePool, votePool') \/ votePool' = << >>
        /\ Extends(resultsPool, resultsPool') \/ resultsPool' = << >>]_vars

\* A Commit of a block that created three processes, two of them of one
\* entity, and revealed the keys of two, the later created one first.
C19_Witness ==
  /\ resp.op = "Commit"
  /\ Len(processPool) = 3
  /\ processPool[2].eid = processPool[3].eid
  /\ storeE[processPool[2].eid] = <<processPool[2].pid, processPool[3].pid>>
  /\ Len(resultsPool) = 2
  /\ resultsPool[1].pid = processPool[3].pid
  /\ resultsPool[2].pid = processPool[2].pid

\* The elements of a sequence.
Range(q) == {q[i] : i \in 1..Len(q)}

\* The keys of the Scrutinizer store with a different value, or present on
\* one side only, in two nodes.
KeysChanged(a, b) ==
  LET Diff(prefix, x, y) ==
        {<<prefix, k>> : k \in {k \in DOMAIN x \cup DOMAIN y :
                                  k \notin DOMAIN x \/ k \notin DOMAIN y \/ x[k] # y[k]}}
  IN Diff("P", a.storeP, b.storeP) \cup Diff("L", a.storeL, b.storeL)
       \cup Diff("E", a.storeE, b.storeE) \cup Diff("R", a.storeR, b.storeR)

\* The keys the three loops of Commit(height) write: the keys they change,
\* and the keys their helpers are called for, written even when the value
\* stays the same.
HookKeys(n, height) ==
  KeysChanged(SpawnTask(n, height), ScrutinizerCommit(n, height))
    \cup {<<"E", p.eid>> : p \in Range(n.processPool)}
    \cup {<<"L", p.pid>> :
            p \in {x \in Range(n.processPool) : isLiveResultsProcess(n, x.pid).isLive}}
    \cup {<<"P", height + j>> : j \in 1..Len(n.resultsPool)}
    \cup {<<"L", v.pid>> : v \in Range(n.votePool)}

\* The keys checkFinishedProcesses(height) reads or writes: the list under
\* P[height] and, for each process of the list, its results under R and its
\* live tally under L.
TaskKeys(n, height) ==
  KeysChanged(n, checkFinishedProcesses(n, height))
    \cup {<<"P", height>>}
    \cup (IF height \in DOMAIN n.storeP
          THEN {<<"R", pid>> : pid \in Range(n.storeP[height])}
                 \cup {<<"L", pid>> : pid \in Range(n.storeP[height])}
          ELSE {})

\* The State may call Commit of its listener: the guard of DoCommit.
CommitEnabled ==
  Initialized /\ (working.height > committed.height \/ recommits < MaxRecommits)

\* The tasks that run while the hook of the next Commit executes: those
\* spawned before and not finished, and the one this Commit spawns.
RunningTasks == DOMAIN SpawnTask(Node, working.height).tasks

\* C20, as the spec states it: the Commit hook and a tally task running at
\* the same time touch disjoint key prefixes of the Scrutinizer store.
C20_DisjointPrefixes ==
  CommitEnabled =>
    \A t \in RunningTasks :
      {k[1] : k \in HookKeys(Node, working.height)}
        \cap {k[1] : k \in TaskKeys(Node, t)} = {}

\* C20, corrected: the prefixes are shared, the keys are not.  No key under
\* P, L, E or R that the hook of a Commit writes is read or written by a
\* tally task running at the same time, whichever of the two goes first.
C20_DisjointKeys ==
  CommitEnabled =>
    \A t \in RunningTasks : HookKeys(Node, working.height) \cap TaskKeys(Node, t) = {}

\* Commit(2) has applied a vote to the live tally of p1 and scheduled a
\* process under P while the task of block 2, which finalises another
\* process, has not finished.
C20_Witness ==
  /\ resp.op = "Commit"
  /\ committed.height \in DOMAIN tasks
  /\ votePool # << >>
  /\ resultsPool # << >>
  /\ \E p \in DOMAIN storeL : storeL[p] # EmptyTally
  /\ committed.height + 1 \in DOMAIN storeP
  /\ \E k \in TaskKeys(Node, committed.height) : k[1] = "L"

\* How many times a process is entered under P, over all blocks.
Scheduled(pid) ==
  LET Count(list) == Cardinality({i \in 1..Len(list) : list[i] = pid})
      RECURSIVE Sum(_)
      Sum(S) == IF S = {} THEN 0
                ELSE LET b == CHOOSE x \in S : TRUE IN Count(storeP[b]) + Sum(S \ {b})
  IN Sum(DOMAIN storeP)

\* C21: each process is entered in processEnding at most once, over all
\* blocks, so its final tally is computed at most once: R[P] is written at
\* most once and no two tasks that finalise P are pending at the same time.
C21_ScheduledOnce ==
  \A pid \in PIDs :
    /\ Scheduled(pid) <= 1
    /\ written[pid] <= 1
    /\ Cardinality({h \in DOMAIN tasks : \E i \in 1..Len(storeP[h]) : storeP[h][i] = pid}) <= 1
    /\ \A h \in DOMAIN tasks :
         (\E i \in 1..Len(storeP[h]) : storeP[h][i] = pid) => tasks[h] <= 1

\* The listener events of a process: OnProcess, OnVote of any voter and
\* package, OnRevealKeys, each applied to a node.
ReplayedEvents(n, pid) ==
  {OnProcess(n, pid, eid) : eid \in {"e1", "e2"}}
    \cup {OnVote(n, NewVote(VoteTx(pid, v, pkg, TRUE), Header(n, FALSE))) :
            v \in Voters, pkg \in {0, 1}}
    \cup {OnRevealKeys(n, pid)}

CancelTxs ==
  {CancelProcessTx("p1"), CancelProcessTx("p2"), AdminTx("revealProcessKeys", "p2"),
   VoteTx("p1", "v1", 1, TRUE), VoteTx("p2", "v1", 1, TRUE)}

InitCancel ==
  /\ working = FirstBlock.working
  /\ committed = FirstBlock.committed
  /\ voteCache = FirstBlock.voteCache
  /\ votePool = FirstBlock.votePool
  /\ processPool = FirstBlock.processPool
  /\ resultsPool = FirstBlock.resultsPool
  /\ storeL = FirstBlock.storeL
  /\ storeE = FirstBlock.storeE
  /\ storeP = FirstBlock.storeP
  /\ storeR = FirstBlock.storeR
  /\ entityCount = FirstBlock.entityCount
  /\ tasks = FirstBlock.tasks
  /\ resp = DeliverTx(FirstBlock, FirstTxs[Len(FirstTxs)]).resp
  /\ lastBegin = [height |-> 1, purge |-> 0]
  /\ commits = 1
  /\ recommits = 0
  /\ written = FirstBlock.written
  /\ lock = FirstBlock.lock
  /\ manager = NoManager
  /\ router = NoRouter
  /\ txs = CancelTxs

NextCancel == DoBeginBlock \/ DoDeliverTx \/ DoCommit \/ DoRunTask

SpecCancel == InitCancel /\ [][NextCancel]_vars

\* A CancelProcess transaction for the process has been applied and committed.
Canceled(s, pid) == s.procs[pid] # NoProc /\ s.procs[pid].canceled

\* Every vote a voter can send for a process.
VotesFor(pid) ==
  {VoteTx(pid, v, pkg, ok) : v \in Voters, pkg \in {0, 1}, ok \in BOOLEAN}

\* C23: once the CancelProcess transaction of a process is applied, the
\* process stays canceled in every later state, every later vote for it is
\* rejected and changes nothing, and no step writes R for it.
C23_CancelTerminal ==
  /\ [](\A pid \in PIDs :
          Canceled(committed, pid) =>
            /\ Canceled(working, pid)
            /\ \A tx \in VotesFor(pid) :
                 /\ CheckTx(Node, tx, FALSE).resp.code # 0
                 /\ DeliverTx(Node, tx).resp.code # 0
                 /\ DeliverTx(Node, tx).n.working = working)
  /\ [][\A pid \in PIDs :
          Canceled(committed, pid) =>
            /\ Canceled(committed', pid)
            /\ Canceled(working', pid)
            /\ written'[pid] = written[pid]
            /\ (pid \in DOMAIN storeR') = (pid \in DOMAIN storeR)]_vars

\* ------------------------------------------------------ two key-holders
\* A chain whose first block creates the encrypted poll p4 with two
\* key-holders, followed by key publications, reveals and votes.
TwoKeysTxs ==
  {AdminTx("addProcessKeys", "p4"), AdminTx("revealProcessKeys", "p4"),
   VoteTx("p4", "v1", 1, TRUE), VoteTx("p4", "v2", 0, TRUE)}

TwoKeysBlock ==
  DeliverAll(BeginBlock(InitChain(NewNode).n, 1).n, <<NewProcessTx("p4", "o1")>>, 1)

InitTwoKeys ==
  /\ working = TwoKeysBlock.working
  /\ committed = TwoKeysBlock.committed
  /\ voteCache = TwoKeysBlock.voteCache
  /\ votePool = TwoKeysBlock.votePool
  /\ processPool = TwoKeysBlock.processPool
  /\ resultsPool = TwoKeysBlock.resultsPool
  /\ storeL = TwoKeysBlock.storeL
  /\ storeE = TwoKeysBlock.storeE
  /\ storeP = TwoKeysBlock.storeP
  /\ storeR = TwoKeysBlock.storeR
  /\ entityCount = TwoKeysBlock.entityCount
  /\ tasks = TwoKeysBlock.tasks
  /\ resp = DeliverTx(BeginBlock(InitChain(NewNode).n, 1).n, NewProcessTx("p4", "o1")).resp
  /\ lastBegin = [height |-> 1, purge |-> 0]
  /\ commits = 1
  /\ recommits = 0
  /\ written = TwoKeysBlock.written
  /\ lock = TwoKeysBlock.lock
  /\ manager = NoManager
  /\ router = NoRouter
  /\ txs = TwoKeysTxs

NextTwoKeys == DoBeginBlock \/ DoCheckTx \/ DoDeliverTx \/ DoCommit \/ DoRunTask

SpecTwoKeys == InitTwoKeys /\ [][NextTwoKeys]_vars

\* The answers of CheckTx and DeliverTx to the votes for a process in
\* snapshot s, and what the vote leaves of the snapshot it is validated on.
VoteAnswers(pid) ==
  UNION {LET d == DeliverTx(Node, tx)
         IN {[s |-> committed, r |-> CheckTx(Node, tx, FALSE).resp, same |-> TRUE, tx |-> tx],
             [s |-> working, r |-> d.resp, same |-> d.n.working = working, tx |-> tx]} :
           tx \in VotesFor(pid)}

\* Whether a valid vote of a new voter arrives while the process is open.
OpenFor(s, tx) ==
  LET p == s.procs[tx.pid]
  IN /\ ~p.canceled
     /\ s.height >= p.startBlock
     /\ s.height <= p.startBlock + p.numberOfBlocks
     /\ ~EnvelopeExists(s, tx.pid, GenerateNullifier(tx.voter, tx.pid))

\* C24: a vote for a process of a key-requiring type is accepted only while
\* KeyIndex is 0; while no key is published every vote is rejected, with
\* MissingEncryptionKeys when the process is open; once KeyIndex is 0 a
\* valid vote of a new voter is accepted.
C24_VotesNeedKeyIndexZero ==
  \A pid \in {q \in PIDs : working.procs[q] # NoProc \/ committed.procs[q] # NoProc} :
    \A a \in VoteAnswers(pid) :
    LET p == a.s.procs[pid]
    IN (p # NoProc /\ p.ptype \in {EncryptedPoll, SnarkVote}) =>
         /\ a.r.code = 0 => p.keyIndex = 0
         /\ p.published = 0 => a.r.code # 0 /\ a.same
         /\ (p.keyIndex > 0 /\ OpenFor(a.s, a.tx)) => a.r.data = "MissingEncryptionKeys"
         /\ (p.keyIndex = 0 /\ OpenFor(a.s, a.tx) /\ a.tx.proofOK) => a.r.code = 0

\* Both keys of p4 published and revealed, and a vote for it accepted.
C24_Witness ==
  /\ working.procs["p4"] # NoProc
  /\ KeyHoldersOf("p4") = 2
  /\ working.procs["p4"].published = 2
  /\ working.procs["p4"].keyIndex = 0
  /\ resp.op = "DeliverTx" /\ resp.code = 0
  /\ \E e \in working.votes : e.pid = "p4"

\* The key slots of a process revealed so far, and the answers of CheckTx
\* and DeliverTx to a revealProcessKeys for it.
Revealed(s, pid) == KeyHoldersOf(pid) - s.procs[pid].keyIndex

RevealAnswers(pid) ==
  LET d == DeliverTx(Node, AdminTx("revealProcessKeys", pid))
  IN {[s |-> committed, r |-> CheckTx(Node, AdminTx("revealProcessKeys", pid), FALSE).resp,
       after |-> committed],
      [s |-> working, r |-> d.resp, after |-> d.n.working]}

\* C25: a revealProcessKeys is accepted only for a key slot that an earlier
\* addProcessKeys of the same process published, and it reveals that slot;
\* KeyIndex is never negative and the revealed slots never exceed the
\* published ones, in the working and in the committed state.
C25_RevealAfterAdd ==
  \A pid \in PIDs :
    /\ \A s \in {working, committed} :
         LET p == s.procs[pid]
         IN (p # NoProc /\ p.ptype \in {EncryptedPoll, SnarkVote}) =>
              /\ p.keyIndex >= 0
              /\ Revealed(s, pid) >= 0
              /\ Revealed(s, pid) <= p.published
              /\ p.published <= KeyHoldersOf(pid)
    /\ \A a \in RevealAnswers(pid) :
         a.r.code = 0 =>
           /\ a.s.procs[pid] # NoProc
           /\ a.s.procs[pid].published >= Revealed(a.s, pid) + 1
           /\ Revealed(a.after, pid) \in {Revealed(a.s, pid), Revealed(a.s, pid) + 1}
           /\ a.after.procs[pid].published = a.s.procs[pid].published

\* The first slot of p4 is published and revealed, and the reveal of the
\* second slot, which is not published, has just been rejected.
C25_Witness ==
  /\ working.procs["p4"] # NoProc
  /\ working.procs["p4"].published = 1
  /\ working.procs["p4"].keyIndex = 1
  /\ resp.op = "DeliverTx" /\ resp.data = "BadKeyIndex"

\* ------------------------------------------- genesis, queries, validators
\* EndBlock of both variants: an empty response, with no validator update.
EndBlock(n) == [n |-> n, resp |-> [NoResp EXCEPT !.op = "EndBlock"], updates |-> {}]
LegacyEndBlock(n) == [n |-> n, resp |-> [NoResp EXCEPT !.op = "EndBlock"], updates |-> {}]

\* The requests of a client: bytes that decode to a QueryData or do not,
\* one of the methods or an unknown one, a process and a voter's nullifier.
QueryMethods ==
  {"getEnvelopeStatus", "getEnvelope", "getEnvelopeHeight", "getBlockHeight",
   "getProcessList", "getEnvelopeList", "getNothing"}
QueryData ==
  {[ok |-> ok, method |-> m, pid |-> pid, nullifier |-> GenerateNullifier(v, pid)] :
     ok \in BOOLEAN, m \in QueryMethods, pid \in {"p1", "p2"}, v \in Voters}

\* Query of the Amino variant: an empty response for every request.
Query(n, req) == [n |-> n, resp |-> [NoResp EXCEPT !.op = "Query"]]

\* State.GetEnvelope and State.CountVotes of the plain JSON variant.
GetEnvelope(n, pid, nullifier) ==
  LET found == {e \in n.working.votes : e.pid = pid /\ e.nullifier = nullifier}
  IN IF found = {} THEN [err |-> "NotFound", e |-> NoProc]
     ELSE [err |-> NoErr, e |-> CHOOSE e \in found : TRUE]
CountVotes(n, pid) == Cardinality({e \in n.working.votes : e.pid = pid})

\* Query of the plain JSON variant.
LegacyQuery(n, req) ==
  LET Answer(code, value) ==
        [n |-> n, resp |-> [NoResp EXCEPT !.op = "Query", !.code = code, !.data = value]]
  IN IF ~req.ok THEN Answer(1, "cannot unmarshal request in app query")
     ELSE CASE req.method = "getEnvelopeStatus" ->
                 IF GetEnvelope(n, req.pid, req.nullifier).err # NoErr
                 THEN Answer(1, NoErr) ELSE Answer(0, NoErr)
            [] req.method = "getEnvelope" ->
                 LET g == GetEnvelope(n, req.pid, req.nullifier)
                 IN IF g.err # NoErr THEN Answer(1, "cannot get envelope")
                    ELSE Answer(0, g.e.pkg)
            [] req.method = "getEnvelopeHeight" -> Answer(0, CountVotes(n, req.pid))
            [] req.method = "getBlockHeight" -> Answer(0, Header(n, FALSE))
            [] req.method = "getProcessList" -> Answer(1, "not implemented")
            [] req.method = "getEnvelopeList" -> Answer(1, "not implemented")
            [] OTHER -> Answer(1, "undefined query method")

\* A chain with a poll-vote process, a vote, and the admin transactions that
\* add the validator val2, change the power of val1 and remove val1.
AdminTxs ==
  {ValidatorTx("addValidator", "val2", 5), ValidatorTx("addValidator", "val1", 7),
   ValidatorTx("removeValidator", "val1", 0),
   NewProcessTx("p1", "o1"), VoteTx("p1", "v1", 1, TRUE)}

InitAdmin ==
  /\ working = EmptySnapshot
  /\ committed = EmptySnapshot
  /\ voteCache = EmptyMap
  /\ votePool = << >>
  /\ processPool = << >>
  /\ resultsPool = << >>
  /\ storeL = EmptyMap
  /\ storeE = EmptyMap
  /\ storeP = EmptyMap
  /\ storeR = EmptyMap
  /\ entityCount = 0
  /\ tasks = EmptyMap
  /\ resp = NoResp
  /\ lastBegin = NoBegin
  /\ commits = 0
  /\ recommits = 0
  /\ written = [p \in PIDs |-> 0]
  /\ lock = FALSE
  /\ manager = NoManager
  /\ router = NoRouter
  /\ txs = AdminTxs

DoEndBlock ==
  /\ Initialized
  /\ LET r == EndBlock(Node) IN Install(r.n) /\ resp' = r.resp
  /\ UNCHANGED <<lastBegin, commits, recommits, txs, manager, router>>

DoQuery ==
  /\ \E req \in QueryData :
       LET r == Query(Node, req) IN Install(r.n) /\ resp' = r.resp
  /\ UNCHANGED <<lastBegin, commits, recommits, txs, manager, router>>

NextAdmin ==
  \/ DoInfo
  \/ DoInitChain
  \/ DoBeginBlock
  \/ DoDeliverTx
  \/ DoEndBlock
  \/ DoCommit
  \/ DoQuery

SpecAdmin == InitAdmin /\ [][NextAdmin]_vars

Stored(req) ==
  \/ EnvelopeExists(working, req.pid, req.nullifier)
  \/ EnvelopeExists(committed, req.pid, req.nullifier)

\* C27: Query answers a non-zero code to a request that does not decode, to
\* an unknown method and to getEnvelopeStatus or getEnvelope of an envelope
\* that is not stored; code 0 only for a stored envelope or a value that
\* can be computed (getEnvelopeHeight, getBlockHeight).
C27_QueryMissing ==
  \A req \in QueryData :
    LET r == Query(Node, req).resp
    IN /\ ~req.ok => r.code # 0
       /\ req.method = "getNothing" => r.code # 0
       /\ (req.method \in {"getEnvelopeStatus", "getEnvelope"} /\ ~Stored(req)) => r.code # 0
       /\ r.code = 0 =>
            /\ req.ok
            /\ \/ req.method \in {"getEnvelopeStatus", "getEnvelope"} /\ Stored(req)
               \/ req.method \in {"getEnvelopeHeight", "getBlockHeight"}

\* The validator updates of a block: every validator the block added or
\* whose power it changed, and every validator it removed, with power 0.
ValidatorUpdates(before, after) ==
  (after \ before)
    \cup {[pubKey |-> v.pubKey, power |-> 0] :
            v \in {u \in before : \A w \in after : w.pubKey # u.pubKey}}

\* C28: the EndBlock of a block reports the validator-set changes that the
\* addValidator and removeValidator transactions of the block applied.
C28_EndBlockUpdates ==
  EndBlock(Node).updates = ValidatorUpdates(committed.validators, working.validators)

\* ----------------------------------------------------------------- UniqID
\* The longest signature of a vote tx handed to UniqID.
MaxSigLen == 34

\* The process types UniqID is called with, one of them unknown.
ProcessTypes == {PollVote, PetitionSign, EncryptedPoll, SnarkVote, "no-such-type"}

\* A vote tx with a Signature field of a given length: no character, fewer
\* characters than a uniq-id, or at least as many.
SignedVoteTx(l, voter, pkg) ==
  [VoteTx("p1", voter, pkg, TRUE) EXCEPT
     !.sig = [len |-> l,
              head |-> IF l = 0 THEN << >>
                       ELSE IF l < UniqIDLength THEN <<l, voter, "p1", pkg>>
                       ELSE <<voter, "p1", pkg, TRUE>>]]

\* The first UniqIDLength characters of a signature, or all of it when it
\* has fewer.
FirstBytes(sig) == sig.head

InitUniqID ==
  /\ working = EmptySnapshot
  /\ committed = EmptySnapshot
  /\ voteCache = EmptyMap
  /\ votePool = << >>
  /\ processPool = << >>
  /\ resultsPool = << >>
  /\ storeL = EmptyMap
  /\ storeE = EmptyMap
  /\ storeP = EmptyMap
  /\ storeR = EmptyMap
  /\ entityCount = 0
  /\ tasks = EmptyMap
  /\ resp = NoResp
  /\ lastBegin = NoBegin
  /\ commits = 0
  /\ recommits = 0
  /\ written = [p \in PIDs |-> 0]
  /\ lock = FALSE
  /\ manager = NoManager
  /\ router = NoRouter
  /\ txs \in {{SignedVoteTx(l, v, pkg)} : l \in 0..MaxSigLen, v \in Voters, pkg \in {0, 1}}

\* A caller asks for the uniq-id of the vote under one process type.
DoUniqID ==
  /\ \E tx \in txs, t \in ProcessTypes :
       resp' = [NoResp EXCEPT !.op = t, !.data = UniqID(tx, t)]
  /\ UNCHANGED <<working, committed, voteCache, votePool, processPool, resultsPool,
                 storeL, storeE, storeP, storeR, entityCount, tasks, lastBegin,
                 commits, recommits, written, lock, txs, manager, router>>

NextUniqID == DoUniqID

SpecUniqID == InitUniqID /\ [][NextUniqID]_vars

\* C29: UniqID returns the first 32 bytes of the signature for every vote
\* of a non-SNARK process type, whatever the length of the signature, and
\* the empty string for snark-vote and for unknown types.
C29_UniqIDAnyLength ==
  \A tx \in txs : \A t \in ProcessTypes :
    UniqID(tx, t) = IF t \in {PollVote, PetitionSign, EncryptedPoll}
                    THEN FirstBytes(tx.sig) ELSE << >>

\* C29, amended: UniqID returns the first 32 bytes of the signature for a
\* vote of a non-SNARK process type whose signature is longer than 32
\* bytes, and the empty string for a signature of 32 bytes or fewer, for
\* snark-vote and for unknown types.
C29_UniqIDLongSignature ==
  /\ \A tx \in txs : \A t \in ProcessTypes :
       /\ (t \in {PollVote, PetitionSign, EncryptedPoll} /\ tx.sig.len > UniqIDLength)
            => UniqID(tx, t) = FirstBytes(tx.sig) /\ UniqID(tx, t) # << >>
       /\ (t \notin {PollVote, PetitionSign, EncryptedPoll} \/ tx.sig.len <= UniqIDLength)
            => UniqID(tx, t) = << >>
  /\ resp.op \in ProcessTypes =>
       \E tx \in txs : resp.data = UniqID(tx, resp.op)

\* The uniq-id of a signature of 33 bytes was returned, and the one of a
\* signature of 32 bytes, which is empty.
C29_Witness ==
  /\ resp.op = EncryptedPoll
  /\ \E tx \in txs : tx.sig.len = UniqIDLength + 1 /\ resp.data = FirstBytes(tx.sig)
  /\ resp.data # << >>

\* ------------------------------------------------------- Scrutinizer.List
\* Keys of the Scrutinizer store are byte strings: here strings of at most
\* MaxKeyLen bytes over two byte values.  A store holds at most MaxStore
\* keys, and List is asked for at most MaxListSize keys.
MaxKeyLen == 2
MaxStore == 3
MaxListSize == 2

Bytes == {1, 2}
ByteStrings(maxLen) == UNION {[1..l -> Bytes] : l \in 0..maxLen}

\* bytes.Compare(a, b) < 0: the order of the keys in the store.
Less(a, b) ==
  \E i \in 1..(Len(b)) :
    /\ \A j \in 1..(i - 1) : j <= Len(a) /\ a[j] = b[j]
    /\ i > Len(a) \/ (i - 1 < Len(a) /\ a[i] < b[i])

HasPrefix(key, prefix) ==
  Len(key) >= Len(prefix) /\ SubSeq(key, 1, Len(prefix)) = prefix

\* The keys of a store in the order of its iterator.
RECURSIVE SortedKeys(_)
SortedKeys(S) ==
  IF S = {} THEN << >>
  ELSE LET least == CHOOSE k \in S : \A other \in S \ {k} : Less(k, other)
       IN <<least>> \o SortedKeys(S \ {least})

\* iter.Seek(target): the position of the first key that is not smaller.
Seek(keys, target) ==
  IF \E i \in 1..Len(keys) : ~Less(keys[i], target)
  THEN CHOOSE i \in 1..Len(keys) :
         ~Less(keys[i], target) /\ \A j \in 1..(i - 1) : Less(keys[j], target)
  ELSE Len(keys) + 1

\* The loop of List from position i of the iterator.
RECURSIVE ListLoop(_, _, _, _, _, _)
ListLoop(keys, i, max, from, prefix, list) ==
  IF i > Len(keys) \/ ~HasPrefix(keys[i], prefix) THEN list
  ELSE LET key == SubSeq(keys[i], Len(prefix) + 1, Len(keys[i]))
       IN IF Len(from) > 0 /\ key = from
          THEN ListLoop(keys, i + 1, max, from, prefix, list)
          ELSE IF max - 1 < 1 THEN Append(list, key)
          ELSE ListLoop(keys, i + 1, max - 1, from, prefix, Append(list, key))

List(store, max, from, prefix) ==
  LET keys == SortedKeys(store)
  IN ListLoop(keys, Seek(keys, prefix \o from), max, from, prefix, << >>)

\* A call of List: the keys of the store it runs on and its arguments.
ListCall(S, max, from, prefix) ==
  [type |-> "List", store |-> S, max |-> max, from |-> from, prefix |-> prefix]

InitList ==
  /\ working = EmptySnapshot
  /\ committed = EmptySnapshot
  /\ voteCache = EmptyMap
  /\ votePool = << >>
  /\ processPool = << >>
  /\ resultsPool = << >>
  /\ storeL = EmptyMap
  /\ storeE = EmptyMap
  /\ storeP = EmptyMap
  /\ storeR = EmptyMap
  /\ entityCount = 0
  /\ tasks = EmptyMap
  /\ resp = NoResp
  /\ lastBegin = NoBegin
  /\ commits = 0
  /\ recommits = 0
  /\ written = [p \in PIDs |-> 0]
  /\ lock = FALSE
  /\ manager = NoManager
  /\ router = NoRouter
  /\ txs \in {{ListCall(S, max, from, prefix)} :
                S \in {T \in SUBSET (ByteStrings(MaxKeyLen) \ {<< >>}) : Cardinality(T) <= MaxStore},
                max \in (0 - 1)..MaxListSize,
                from \in ByteStrings(MaxKeyLen - 1),
                prefix \in ByteStrings(1)}

DoList ==
  /\ \E c \in txs :
       resp' = [NoResp EXCEPT !.op = "List", !.data = List(c.store, c.max, c.from, c.prefix)]
  /\ UNCHANGED <<working, committed, voteCache, votePool, processPool, resultsPool,
                 storeL, storeE, storeP, storeR, entityCount, tasks, lastBegin,
                 commits, recommits, written, lock, txs, manager, router>>

NextList == DoList

SpecList == InitList /\ [][NextList]_vars

\* The keys of the store that List may return: under the prefix, stripped
\* of it, not smaller than from and not from itself.
Eligible(c) ==
  {SubSeq(k, Len(c.prefix) + 1, Len(k)) : k \in {x \in c.store : HasPrefix(x, c.prefix)}}
    \ {k \in ByteStrings(MaxKeyLen) : Less(k, c.from) \/ (Len(c.from) > 0 /\ k = c.from)}

\* C30: List returns at most max keys, none when max is 0 or negative;
\* every returned key carries the prefix and comes stripped of it, differs
\* from the from key and is not smaller than it; the keys come in the
\* ascending order of the store and none in between is skipped.
C30_ListAtMostMax ==
  \A c \in txs :
    c.type = "List" =>
      LET out == List(c.store, c.max, c.from, c.prefix)
      IN /\ Len(out) <= (IF c.max > 0 THEN c.max ELSE 0)
         /\ \A i \in 1..Len(out) :
              /\ c.prefix \o out[i] \in c.store
              /\ Len(c.from) > 0 => out[i] # c.from
              /\ ~Less(out[i], c.from)
         /\ \A i \in 1..(Len(out) - 1) : Less(out[i], out[i + 1])
         /\ \A i \in 1..Len(out) : \A k \in Eligible(c) :
              Less(k, out[i]) => \E j \in 1..(i - 1) : out[j] = k
         /\ Len(out) < c.max => \A k \in Eligible(c) : \E j \in 1..Len(out) : out[j] = k

\* ------------------------------------------------------------ the vote pool
\* C31: votePool holds votes of live-results processes only.  A delivered
\* vote is appended to votePool exactly when it is accepted and its process
\* is a live-results process; no vote touches processPool or resultsPool; and
\* a vote event whose live-results check fails with an error (the process is
\* not in the state) leaves the node as it was.
C31_VotePoolLive ==
  /\ \A i \in 1..Len(votePool) : isLiveResultsProcess(Node, votePool[i].pid).isLive
  /\ \A tx \in {t \in txs : t.type = "vote"} :
       LET d == DeliverTx(Node, tx)
           live == isLiveResultsProcess(d.n, tx.pid)
       IN /\ d.n.processPool = processPool
          /\ d.n.resultsPool = resultsPool
          /\ d.n.votePool = IF d.resp.code = 0 /\ ~live.err /\ live.isLive
                            THEN Append(votePool, NewVote(tx, working.height))
                            ELSE votePool
  /\ \A pid \in PIDs :
       Process(Node, pid, FALSE) = NoProc =>
         /\ isLiveResultsProcess(Node, pid).err
         /\ \A tx \in VotesFor(pid) : OnVote(Node, NewVote(tx, working.height)) = Node

\* A block with an accepted vote of the poll-vote p1, buffered, and an
\* accepted vote of the encrypted poll p2, not buffered.
C31_Witness ==
  /\ Len(votePool) > 0
  /\ \A i \in 1..Len(votePool) : votePool[i].pid = "p1"
  /\ \E e \in working.votes : e.pid = "p2" /\ e.height = working.height
  /\ \E e \in working.votes : e.pid = "p1" /\ e.height = working.height

\* --------------------------------------------------------- the results pool
\* C32: a delivered revealProcessKeys appends its process to resultsPool
\* exactly when it is accepted and leaves KeyIndex below 1 in the working
\* state; a reveal that leaves KeyIndex at 1 or more, a rejected one and an
\* event for a process that is not in the state leave the three pools as
\* they were; and no process is twice in resultsPool.
C32_ResultsPoolOnLastReveal ==
  /\ \A i, j \in 1..Len(resultsPool) :
       resultsPool[i].pid = resultsPool[j].pid => i = j
  /\ \A pid \in PIDs :
       LET d == DeliverTx(Node, AdminTx("revealProcessKeys", pid))
           p == Process(d.n, pid, FALSE)
       IN /\ d.n.votePool = votePool
          /\ d.n.processPool = processPool
          /\ d.n.resultsPool = IF d.resp.code = 0 /\ p.keyIndex < 1
                               THEN Append(resultsPool, [eid |-> p.eid, pid |-> pid])
                               ELSE resultsPool
          /\ d.resp.code = 0 => p.keyIndex = Process(Node, pid, FALSE).keyIndex - 1
  /\ \A pid \in PIDs :
       LET p == Process(Node, pid, FALSE)
           e == OnRevealKeys(Node, pid)
       IN IF p = NoProc \/ p.keyIndex >= 1
          THEN e = Node
          ELSE e = [Node EXCEPT !.resultsPool = Append(@, [eid |-> p.eid, pid |-> pid])]

\* The second of the two reveals of p4 has been delivered in the block of the
\* first: KeyIndex went 2, 1, 0 and the pool holds p4 once.
C32_Witness ==
  /\ resp.op = "DeliverTx" /\ resp.code = 0
  /\ working.procs["p4"].keyIndex = 0
  /\ working.procs["p4"].published = 2
  /\ IF committed.procs["p4"] = NoProc THEN TRUE ELSE committed.procs["p4"].keyIndex = 2
  /\ Len(resultsPool) = 1 /\ resultsPool[1].pid = "p4"

\* ------------------------------------------------------- a repeated Commit
\* C33: every buffered event is applied to the Scrutinizer store once.  A
\* Commit that follows a Commit with no BeginBlock, Rollback or DeliverTx in
\* between finds no event left to apply: it adds no vote to a live tally
\* under L and registers no process under P.
C33_AppliedOnce ==
  [][(recommits' = recommits + 1 /\ resp.op = "Commit") =>
       /\ storeL' = storeL
       /\ storeP' = storeP]_vars

\* ============================================================ census.Manager
\* Census names, claims and URIs are strings, kept as sequences of symbols so
\* that a prefix test and a concatenation are what they are in the code.
\* The Go toolchain of the build: before Go 1.22 the variable of a range
\* loop is one variable for the whole loop.
LoopVarPerIteration == FALSE

\* The size of the import queue and the seconds a timestamp may be off.
ImportQueueSize == 32
AuthWindow == 10

\* Management keys; the empty string stands for a string shorter than a
\* public key.
CensusKeys == {"kA", "kB"}
ValidPubKey(k) == k # ""

\* A signature names its signer and the MetaRequest it was made over; a
\* signer "" stands for a Signature field shorter than a signature.
SignRequest(r, key) == [req |-> r, Signature |-> [signer |-> key, over |-> r]]
\* signature.Verify(msg, sig, pubKey)
Verify(msg, sig, pubKey) == sig.signer = pubKey /\ sig.over = msg

\* base64: a text is a sequence of characters, <<b>> encodes the byte b and
\* << >> is a character outside the alphabet.  DecodeString returns the
\* bytes decoded before the first such character, and an error for it.
EncodeToString(data) == [i \in DOMAIN data |-> <<data[i]>>]
DecodeString(text) ==
  LET bad == {i \in DOMAIN text : text[i] = << >>}
      n == IF bad = {} THEN Len(text) ELSE (CHOOSE i \in bad : \A j \in bad : i <= j) - 1
  IN [data |-> [i \in 1..n |-> text[i][1]], err |-> bad # {}]

\* strings.HasPrefix
StringHasPrefix(s, prefix) ==
  Len(prefix) <= Len(s) /\ SubSeq(s, 1, Len(prefix)) = prefix

\* ---- tree.Tree: a merkle tree, here the set of its claims.  The root is a
\* hash of the claims: one string for each set of claims.
AllClaims == << <<"c1">>, <<"c2">> >>
NewTree == [claims |-> {}]
Root(tr) ==
  <<"root">> \o [i \in DOMAIN AllClaims |-> IF AllClaims[i] \in tr.claims THEN "1" ELSE "0"]
\* AddClaim fails for a claim the tree holds already.
AddClaim(tr, data) ==
  IF data \in tr.claims THEN [tr |-> tr, err |-> "claim already exists"]
  ELSE [tr |-> [tr EXCEPT !.claims = @ \cup {data}], err |-> NoErr]
\* ImportDump adds the claims of a dump in order and stops at the first one
\* it cannot decode.
RECURSIVE ImportDump(_, _, _)
ImportDump(tr, claimsData, i) ==
  IF i > Len(claimsData) THEN [tr |-> tr, err |-> NoErr]
  ELSE LET d == DecodeString(claimsData[i])
       IN IF d.err THEN [tr |-> tr, err |-> "cannot decode claim"]
          ELSE ImportDump([tr EXCEPT !.claims = @ \cup {d.data}], claimsData, i + 1)
\* Dump: the claims of the tree, encoded, in the order of AllClaims.
Dump(tr) ==
  LET held == SelectSeq(AllClaims, LAMBDA c : c \in tr.claims)
  IN [i \in DOMAIN held |-> EncodeToString(held[i])]
\* Snapshot(root): the tree as it was at that root; here a tree keeps its
\* current root only.
TreeSnapshot(tr, root) ==
  IF root = Root(tr) THEN [tr |-> tr, err |-> NoErr] ELSE [tr |-> tr, err |-> "no such root"]

\* ---- Manager
\* AddNamespace(name, pubKeys)
AddNamespace(m, name, pubKeys) ==
  IF name \in DOMAIN m.Trees
  THEN [m |-> m, err |-> "namespace already exist"]
  ELSE [m |-> [m EXCEPT !.Trees = MapPut(@, name, NewTree),
                        !.Namespaces = Append(@, [Name |-> name, Keys |-> pubKeys])],
        err |-> NoErr]

\* DelNamespace(name): removes the tree and the first namespace of that name.
DelNamespace(m, name) ==
  LET hits == {i \in DOMAIN m.Namespaces : m.Namespaces[i].Name = name}
      first == CHOOSE i \in hits : \A j \in hits : i <= j
      n == Len(m.Namespaces)
  IN [m EXCEPT !.Trees = MapDel(@, name),
               !.Namespaces = IF hits = {} THEN @
                              ELSE SubSeq(@, 1, first - 1) \o SubSeq(@, first + 1, n)]

\* The namespaces file a Manager finds at Init: none, one it cannot read,
\* one that is no JSON, or a Census with the trees stored beside it.
NsA == [Name |-> <<"A">>, Keys |-> <<"kA">>]
NsB == [Name |-> <<"B">>, Keys |-> <<"kB">>]
ConfigFiles ==
  {[kind |-> k, Census |-> [RootKey |-> "", Namespaces |-> << >>]] :
     k \in {"absent", "unreadable", "unparsable"}}
  \cup {[kind |-> "json", Census |-> [RootKey |-> rk, Namespaces |-> l]] :
          rk \in {"", "kR"}, l \in {<< >>, <<NsA>>, <<NsA, NsB>>, <<NsB, NsA>>}}

\* Manager.Init(storage, rootKey): the error it returns and the Manager.
ManagerInit(m, file, rootKey) ==
  LET m0 == [m EXCEPT !.Trees = EmptyMap, !.importQueue = << >>]
  IN CASE file.kind = "absent" ->
            [err |-> NoErr,
             m |-> [m0 EXCEPT !.init = "created",
                              !.RootKey = IF ValidPubKey(rootKey) THEN rootKey ELSE "",
                              !.Namespaces = << >>]]
       [] file.kind = "unreadable" ->
            [err |-> "read error", m |-> [m0 EXCEPT !.init = "failed"]]
       [] file.kind = "unparsable" ->
            [err |-> NoErr, m |-> [m0 EXCEPT !.init = "skipped"]]
       [] OTHER ->
            [err |-> NoErr,
             m |-> [m0 EXCEPT !.init = "loaded",
                              !.RootKey = IF ValidPubKey(rootKey) THEN rootKey
                                          ELSE file.Census.RootKey,
                              !.Namespaces = file.Census.Namespaces,
                              !.Trees = [name \in {file.Census.Namespaces[i].Name :
                                                     i \in DOMAIN file.Census.Namespaces}
                                           |-> NewTree],
                              !.daemon = "running"]]

\* CheckAuth(rm) at time currentTime: nil or the error.  ns starts as a new,
\* empty Namespace and is pointed at the loop variable on a match; the
\* test for a nil ns that follows can never succeed.
CheckAuth(m, rm, currentTime) ==
  LET r == rm.req
      hits == {i \in DOMAIN m.Namespaces : m.Namespaces[i].Name = r.CensusID}
      found == IF hits = {} THEN [Name |-> << >>, Keys |-> << >>]
               ELSE IF LoopVarPerIteration
                    THEN m.Namespaces[CHOOSE i \in hits : \A j \in hits : j <= i]
                    ELSE m.Namespaces[Len(m.Namespaces)]
      ns == IF r.Method = "addCensus" THEN [found EXCEPT !.Keys = <<m.RootKey>>] ELSE found
  IN CASE rm.Signature.signer = "" \/ Len(r.CensusID) < 1 ->
            "signature or censusId not provided or invalid"
       [] r.Method = "addCensus" /\ ~ValidPubKey(m.RootKey) -> NoErr
       [] r.Timestamp > currentTime + AuthWindow -> "timestamp is not valid"
       [] r.Timestamp < currentTime - AuthWindow -> "timestamp is not valid"
       [] Len(ns.Keys) = 0 -> NoErr
       [] Len(ns.Keys) = 1 /\ ~ValidPubKey(ns.Keys[1]) -> NoErr
       [] \E i \in DOMAIN ns.Keys : Verify(r, rm.Signature, ns.Keys[i]) -> NoErr
       [] OTHER -> "unauthorized"
\* ---- Manager.Handler
URIprefix == "ipfs://"
NewResponse ==
  [op |-> "Handler", Ok |-> TRUE, Message |-> NoErr, CensusID |-> << >>, Root |-> << >>,
   URI |-> [scheme |-> "", path |-> ""], ClaimsData |-> << >>, InvalidClaims |-> << >>]
SetError(rs, msg) == [rs EXCEPT !.Ok = FALSE, !.Message = msg]

\* validAuthPrefix: no prefix is used, or the census name starts with it.
ValidAuthPrefixAny(r, censusPrefix) == TRUE
ValidAuthPrefix(r, censusPrefix) ==
  IF Len(censusPrefix) = 0 THEN TRUE ELSE StringHasPrefix(r.CensusID, censusPrefix)

\* The loop of addClaimBulk: the tree and the indexes (from 0) of the claims
\* that were not added.
RECURSIVE AddClaimBulk(_, _, _, _)
AddClaimBulk(tr, claimsData, i, invalid) ==
  IF i > Len(claimsData) THEN [tr |-> tr, invalid |-> invalid]
  ELSE LET d == DecodeString(claimsData[i])
           a == AddClaim(tr, d.data)
       IN IF d.err \/ a.err # NoErr
          THEN AddClaimBulk(tr, claimsData, i + 1, Append(invalid, i - 1))
          ELSE AddClaimBulk(a.tr, claimsData, i + 1, invalid)

\* The methods of a census that exists.  env holds what the storage
\* answers: the raw census Retrieve returns and whether Publish fails.
HandlerOfCensus(m, r, isAuth, validAuthPrefix, env) ==
  LET ok == NewResponse
      op == r.Method
      tr == m.Trees[r.CensusID]
      Put(t) == [m EXCEPT !.Trees[r.CensusID] = t]
      denied == [m |-> m, resp |-> SetError(ok, "invalid authentication")]
      snap == IF Len(r.RootHash) > 1 THEN TreeSnapshot(tr, r.RootHash)
              ELSE [tr |-> tr, err |-> NoErr]
  IN CASE op = "getRoot" -> [m |-> m, resp |-> [ok EXCEPT !.Root = Root(tr)]]
       [] op = "addClaimBulk" ->
            IF isAuth /\ validAuthPrefix
            THEN LET b == AddClaimBulk(tr, r.ClaimsData, 1, << >>)
                 IN [m |-> Put(b.tr), resp |-> [ok EXCEPT !.InvalidClaims = b.invalid]]
            ELSE denied
       [] op = "addClaim" ->
            IF isAuth /\ validAuthPrefix
            THEN LET d == DecodeString(r.ClaimData)
                     ok1 == IF d.err THEN SetError(ok, "illegal base64 data") ELSE ok
                     a == AddClaim(tr, d.data)
                 IN IF a.err # NoErr
                    THEN [m |-> m, resp |-> SetError(ok1, a.err)]
                    ELSE [m |-> Put(a.tr), resp |-> ok1]
            ELSE denied
       [] op = "importDump" ->
            IF isAuth /\ validAuthPrefix
            THEN IF Len(r.ClaimsData) > 0
                 THEN LET i == ImportDump(tr, r.ClaimsData, 1)
                      IN [m |-> Put(i.tr),
                          resp |-> IF i.err # NoErr THEN SetError(ok, i.err) ELSE ok]
                 ELSE [m |-> m, resp |-> ok]
            ELSE denied
       [] op = "importRemote" ->
            IF ~isAuth \/ ~validAuthPrefix THEN denied
            ELSE IF m.Storage = "nil" THEN [m |-> m, resp |-> SetError(ok, "not supported")]
            ELSE IF r.URI.scheme # URIprefix \/ r.URI.path = ""
                 THEN [m |-> m, resp |-> SetError(ok, "URI not supported")]
            ELSE IF env.raw.kind = "error"
                 THEN [m |-> m, resp |-> SetError(ok, "cannot retrieve census")]
            ELSE IF env.raw.kind = "garbage"
                 THEN [m |-> m,
                       resp |-> SetError(ok, "retrieved census do not have a correct format")]
            ELSE IF Len(env.raw.ClaimsData) > 0
                 THEN LET i == ImportDump(tr, env.raw.ClaimsData, 1)
                      IN [m |-> Put(i.tr),
                          resp |-> IF i.err # NoErr
                                   THEN SetError(ok, "error importing census") ELSE ok]
                 ELSE [m |-> m, resp |-> SetError(ok, "no claims found")]
       [] op = "checkProof" ->
            IF Len(r.ProofData) < 1
            THEN [m |-> m, resp |-> SetError(ok, "proofData not provided")]
            ELSE IF DecodeString(r.ClaimData).err
                 THEN [m |-> m, resp |-> SetError(ok, "illegal base64 data")]
                 ELSE [m |-> m, resp |-> ok]
       [] snap.err # NoErr -> [m |-> m, resp |-> SetError(ok, "invalid root hash")]
       [] op = "genProof" ->
            IF DecodeString(r.ClaimData).err
            THEN [m |-> m, resp |-> SetError(ok, "illegal base64 data")]
            ELSE [m |-> m, resp |-> ok]
       [] op = "getSize" -> [m |-> m, resp |-> ok]
       [] op \in {"dump", "dumpPlain"} ->
            IF ~isAuth \/ ~validAuthPrefix THEN denied
            ELSE [m |-> m, resp |-> [ok EXCEPT !.ClaimsData = Dump(snap.tr)]]
       [] op = "publish" ->
            IF ~isAuth \/ ~validAuthPrefix THEN denied
            ELSE IF m.Storage = "nil" THEN [m |-> m, resp |-> SetError(ok, "not supported")]
            ELSE IF env.publishErr
                 THEN [m |-> m, resp |-> SetError(ok, "cannot publish")]
            ELSE LET root == Root(snap.tr)
                     a == AddNamespace(m, root, r.PubKeys)
                     i == ImportDump(NewTree, Dump(snap.tr), 1)
                     ok1 == [ok EXCEPT !.URI = [scheme |-> URIprefix, path |-> "cid"],
                                           !.Root = root]
                 IN IF a.err # NoErr THEN [m |-> m, resp |-> ok1]
                    ELSE [m |-> [a.m EXCEPT !.Trees[root] = i.tr], resp |-> ok1]
       [] OTHER -> [m |-> m, resp |-> ok]

\* Handler(r, isAuth, censusPrefix)
Handler(m, r, isAuth, censusPrefix, env) ==
  IF r.Method = "addCensus"
  THEN IF isAuth
       THEN LET a == AddNamespace(m, censusPrefix \o r.CensusID, r.PubKeys)
            IN IF a.err # NoErr
               THEN [m |-> a.m, resp |-> SetError(NewResponse, a.err)]
               ELSE [m |-> a.m,
                     resp |-> [NewResponse EXCEPT !.CensusID = censusPrefix \o r.CensusID]]
       ELSE [m |-> m, resp |-> SetError(NewResponse, "invalid authentication")]
  ELSE IF r.CensusID \notin DOMAIN m.Trees
       THEN [m |-> m, resp |-> SetError(NewResponse, "censusId not valid or not found")]
       ELSE HandlerOfCensus(m, r, isAuth, ValidAuthPrefix(r, censusPrefix), env)

\* HTTPhandler: a request without a method is answered with status 400;
\* CheckAuth decides isAuth, and the prefix handed to Handler is empty.
HTTPhandler(m, rm, currentTime, env) ==
  IF Len(rm.req.Method) < 1
  THEN [m |-> m, resp |-> [SetError(NewResponse, "method must be specified")
                             EXCEPT !.op = "HTTP 400"]]
  ELSE Handler(m, rm.req, CheckAuth(m, rm, currentTime) = NoErr, << >>, env)
\* ---- importQueueDaemon
\* One pass of the loop for the import imp, raw being what Storage.Retrieve
\* returns for its URI.
ImportOne(m, imp, raw) ==
  LET cid == imp.censusID
      a == AddNamespace(m, cid, << >>)
      i == ImportDump(NewTree, raw.ClaimsData, 1)
      m1 == [a.m EXCEPT !.Trees[cid] = i.tr]
  IN IF cid \in DOMAIN m.Trees THEN m
     ELSE IF raw.kind = "error" THEN m
     ELSE IF raw.kind = "garbage" THEN m
     ELSE IF raw.RootHash # cid THEN m
     ELSE IF Len(raw.ClaimsData) = 0 THEN m
     ELSE IF a.err # NoErr THEN a.m
     ELSE IF i.err # NoErr THEN m1
     ELSE IF Root(i.tr) # raw.RootHash THEN DelNamespace(m1, cid)
     ELSE m1

\* ---- the requests and the storage of a run
\* The time of the run, time.Now().Unix(), and a request made at that time.
Now == 2 * AuthWindow
Req(method, cid) ==
  [Method |-> method, CensusID |-> cid, Timestamp |-> Now, PubKeys |-> << >>,
   ClaimData |-> << >>, ClaimsData |-> << >>, URI |-> [scheme |-> "", path |-> ""],
   RootHash |-> << >>, ProofData |-> << >>]
C1 == EncodeToString(<<"c1">>)
C2 == EncodeToString(<<"c2">>)
\* The text of c1 followed by a character outside the base64 alphabet.
C1Bad == C1 \o << << >> >>
RootC1 == Root([claims |-> {<<"c1">>}])

\* What Storage.Retrieve can return for the URI of a census: an error, bytes
\* that are no CensusDump, or a dump.
Raw(root, claimsData) == [kind |-> "dump", RootHash |-> root, ClaimsData |-> claimsData]
RawContents ==
  {[kind |-> k, RootHash |-> << >>, ClaimsData |-> << >>] : k \in {"error", "garbage"}}
  \cup {Raw(RootC1, <<C1>>), Raw(RootC1, <<C2>>), Raw(RootC1, <<C1, C1Bad>>), Raw(RootC1, <<C1Bad, C1>>),
        Raw(RootC1, << >>), Raw(<<"A">>, <<C1>>)}
\* The answers of the storage that a request can meet: Retrieve is called
\* by importRemote and Publish by publish.
EnvsOf(r) ==
  CASE r.Method = "importRemote" -> {[raw |-> raw, publishErr |-> FALSE] : raw \in RawContents}
    [] r.Method = "publish" ->
         {[raw |-> Raw(RootC1, <<C1>>), publishErr |-> e] : e \in BOOLEAN}
    [] OTHER -> {[raw |-> Raw(RootC1, <<C1>>), publishErr |-> FALSE]}

IpfsURI == [scheme |-> URIprefix, path |-> "census"]
MetaRequests ==
  {[Req("addCensus", <<"A">>) EXCEPT !.PubKeys = <<"kA">>],
   [Req("addCensus", <<"B">>) EXCEPT !.PubKeys = <<"kB">>],
   [Req("addClaim", <<"A">>) EXCEPT !.ClaimData = C1],
   [Req("addClaim", <<"A">>) EXCEPT !.ClaimData = C1Bad],
   [Req("addClaim", <<"B">>) EXCEPT !.ClaimData = C2],
   [Req("addClaim", <<"C">>) EXCEPT !.ClaimData = C1],
   [Req("addClaimBulk", <<"A">>) EXCEPT !.ClaimsData = <<C1, C1Bad, C2>>],
   [Req("importDump", <<"B">>) EXCEPT !.ClaimsData = <<C1>>],
   [Req("importRemote", <<"A">>) EXCEPT !.URI = IpfsURI],
   Req("getRoot", <<"A">>), Req("dump", <<"A">>), Req("dumpPlain", <<"B">>),
   Req("publish", <<"A">>), Req("", <<"A">>)}
\* A request made before the window of accepted timestamps.
StaleRequest ==
  [Req("addClaim", <<"A">>) EXCEPT !.ClaimData = C2, !.Timestamp = Now - AuthWindow - 1]
\* Who signs the requests: the root key or the key of A for addCensus, the
\* key of A, the key of B or nobody for addClaim, the key of A or nobody else.
SignersOf(r) ==
  CASE r.Method = "addCensus" -> {"kR", "kA"}
    [] r.Method = "addClaim" -> {"kA", "kB", ""}
    [] OTHER -> {"kA", ""}
Requests ==
  UNION {{SignRequest(r, k) : k \in SignersOf(r)} : r \in MetaRequests}
  \cup {SignRequest(StaleRequest, "kA")}
Imports == {[censusID |-> RootC1, censusURI |-> IpfsURI],
            [censusID |-> <<"A">>, censusURI |-> IpfsURI]}

\* The node part of the state takes no step in a run of the census service.
NodeIdle ==
  /\ working = EmptySnapshot
  /\ committed = EmptySnapshot
  /\ voteCache = EmptyMap
  /\ votePool = << >>
  /\ processPool = << >>
  /\ resultsPool = << >>
  /\ storeL = EmptyMap
  /\ storeE = EmptyMap
  /\ storeP = EmptyMap
  /\ storeR = EmptyMap
  /\ entityCount = 0
  /\ tasks = EmptyMap
  /\ lastBegin = NoBegin
  /\ commits = 0
  /\ recommits = 0
  /\ written = [p \in PIDs |-> 0]
  /\ lock = FALSE
  /\ txs = {}
nodeVars ==
  <<working, committed, voteCache, votePool, processPool, resultsPool, storeL, storeE,
    storeP, storeR, entityCount, tasks, lastBegin, commits, recommits, written, lock, txs>>

InitCensus ==
  /\ NodeIdle
  /\ manager = NoManager
  /\ router = NoRouter
  /\ resp = NoResp

\* The number of namespaces a run creates.
MaxNamespaces == 2

\* The service sets the storage and calls Manager.Init.
ServiceInit(storages) ==
  /\ manager.init = "none"
  /\ \E file \in ConfigFiles, rootKey \in {"", "kR"}, storage \in storages :
       LET r == ManagerInit([manager EXCEPT !.Storage = storage], file, rootKey)
       IN /\ manager' = r.m
          /\ resp' = [NewResponse EXCEPT !.op = "Init", !.Ok = r.err = NoErr, !.Message = r.err]
  /\ UNCHANGED <<nodeVars, router>>
DoManagerInit == ServiceInit({"nil", "ipfs"})

\* Init returned without error.
Serving == manager.init \in {"created", "skipped", "loaded"}

DoHTTPhandler ==
  /\ Serving
  /\ \E rm \in Requests :
     \E env \in EnvsOf(rm.req) :
       LET h == HTTPhandler(manager, rm, Now, env)
       IN /\ Len(h.m.Namespaces) <= MaxNamespaces
          /\ manager' = h.m
          /\ resp' = [h.resp EXCEPT !.op = IF @ = "Handler" THEN "HTTPhandler" ELSE @]
  /\ UNCHANGED <<nodeVars, router>>

\* Handler called by a service that has done its own authentication and
\* serves the censuses under a prefix; txs holds the arguments of the call.
CensusPrefixes == {<< >>, <<"A">>, <<"B">>}
HandlerCall(r, isAuth, censusPrefix) ==
  [r |-> r, isAuth |-> isAuth, censusPrefix |-> censusPrefix]
HandlerRequests ==
  {r \in MetaRequests : /\ r.CensusID = <<"A">>
                        /\ r.Method \in {"addCensus", "addClaim", "dump", "getRoot"}}
DoHandler ==
  /\ Serving
  /\ \E r \in HandlerRequests, isAuth \in BOOLEAN, censusPrefix \in CensusPrefixes :
     \E env \in EnvsOf(r) :
       LET h == Handler(manager, r, isAuth, censusPrefix, env)
       IN /\ Len(h.m.Namespaces) <= MaxNamespaces
          /\ manager' = h.m
          /\ resp' = h.resp
          /\ txs' = {HandlerCall(r, isAuth, censusPrefix)}
  /\ UNCHANGED <<working, committed, voteCache, votePool, processPool, resultsPool,
                 storeL, storeE, storeP, storeR, entityCount, tasks, lastBegin, commits,
                 recommits, written, lock, router>>

\* An import is queued and the daemon takes it and handles it.  A daemon
\* without a storage fails on the nil Storage and ends the process.
DoImport ==
  /\ Serving
  /\ manager.daemon = "running"
  /\ manager.importQueue = << >>
  /\ \E imp \in Imports, raw \in RawContents :
       LET m1 == IF imp.censusID \in DOMAIN manager.Trees THEN manager
                 ELSE IF manager.Storage = "nil" THEN [manager EXCEPT !.daemon = "panic"]
                 ELSE ImportOne(manager, imp, raw)
       IN /\ Len(m1.Namespaces) <= MaxNamespaces
          /\ manager' = m1
          /\ resp' = [NewResponse EXCEPT !.op = "import", !.CensusID = imp.censusID]
  /\ UNCHANGED <<nodeVars, router>>

NextCensus == DoManagerInit \/ DoHTTPhandler \/ DoImport

SpecCensus == InitCensus /\ [][NextCensus]_vars

\* A service that calls Handler itself.
NextHandler == DoManagerInit \/ DoHandler
SpecHandler == InitCensus /\ [][NextHandler]_vars

\* The keys of the namespaces named cid, and a signed request to add a claim
\* to the census cid.
KeysOf(m, cid) ==
  UNION {{m.Namespaces[i].Keys[j] : j \in DOMAIN m.Namespaces[i].Keys} :
           i \in {x \in DOMAIN m.Namespaces : m.Namespaces[x].Name = cid}}
ClaimRequest(cid, key) == SignRequest([Req("addClaim", cid) EXCEPT !.ClaimData = C1], key)

\* C34: CheckAuth verifies the signature against the keys of the namespace
\* named by the CensusID of the request and of no other namespace: a
\* request for a namespace that has management keys, signed with a key that
\* is none of them, is not authorized, whatever the order of the list.
C34_AuthOwnNamespace ==
  \A cid \in {<<"A">>, <<"B">>} : \A key \in CensusKeys :
    (/\ KeysOf(manager, cid) # {}
     /\ \A k \in KeysOf(manager, cid) : ValidPubKey(k)
     /\ key \notin KeysOf(manager, cid))
    => CheckAuth(manager, ClaimRequest(cid, key), Now) # NoErr

\* The private methods, and the census a call acts on: addCensus creates
\* the census named by the prefix followed by the CensusID of the request.
PrivateMethods ==
  {"addCensus", "addClaim", "addClaimBulk", "importDump", "importRemote", "dump",
   "dumpPlain", "publish"}
CensusOf(r, censusPrefix) ==
  IF r.Method = "addCensus" THEN censusPrefix \o r.CensusID ELSE r.CensusID
PrefixMatches(r, censusPrefix) ==
  \/ Len(censusPrefix) = 0
  \/ /\ Len(CensusOf(r, censusPrefix)) >= Len(censusPrefix)
     /\ SubSeq(CensusOf(r, censusPrefix), 1, Len(censusPrefix)) = censusPrefix

\* C36: Handler gives access to a private method only when isAuth is true
\* and the census the call acts on carries the census prefix (or no prefix
\* is used): every other call of a private method is answered with an error
\* and leaves the namespaces and every tree as they were.
C36_PrivateMethodsNeedAuth ==
  \A r \in MetaRequests, isAuth \in BOOLEAN, censusPrefix \in CensusPrefixes :
    \A env \in EnvsOf(r) :
      (r.Method \in PrivateMethods /\ ~(isAuth /\ PrefixMatches(r, censusPrefix)))
      => LET h == Handler(manager, r, isAuth, censusPrefix, env)
         IN /\ ~h.resp.Ok
            /\ h.m.Namespaces = manager.Namespaces
            /\ h.m.Trees = manager.Trees
\* An authenticated addClaim for the census A, served under the prefix B,
\* was refused while the census A exists.
C36_Witness ==
  /\ resp.op = "Handler"
  /\ resp.Message = "invalid authentication"
  /\ <<"A">> \in DOMAIN manager.Trees
  /\ \E c \in txs : c.isAuth /\ c.censusPrefix = <<"B">> /\ c.r.Method = "addClaim"
                    /\ c.r.CensusID = <<"A">>

\* C35: CheckAuth returns an error for every request, other than addCensus,
\* whose CensusID is the name of no registered namespace.
C35_UnknownCensusRefused ==
  \A cid \in {<<"A">>, <<"B">>, <<"C">>} : \A key \in CensusKeys :
    (/\ Serving
     /\ \A i \in DOMAIN manager.Namespaces : manager.Namespaces[i].Name # cid)
    => CheckAuth(manager, ClaimRequest(cid, key), Now) # NoErr

\* tree.Size: the number of claims of a tree.
Size(tr) == Cardinality(tr.claims)

\* C37: an authorized addClaim whose ClaimData is not valid base64 is
\* answered with an error and adds no claim: the root and the size of the
\* tree are the same before and after the call.
C37_BadClaimAddsNothing ==
  [][\A c \in txs' :
       (/\ c.r.Method = "addClaim"
        /\ DecodeString(c.r.ClaimData).err
        /\ c.isAuth
        /\ PrefixMatches(c.r, c.censusPrefix)
        /\ c.r.CensusID \in DOMAIN manager.Trees)
       => /\ ~resp'.Ok
          /\ Root(manager'.Trees[c.r.CensusID]) = Root(manager.Trees[c.r.CensusID])
          /\ Size(manager'.Trees[c.r.CensusID]) = Size(manager.Trees[c.r.CensusID])]_vars

\* C38: after the daemon has handled the import of censusID, a namespace
\* censusID that the import created is there only with a tree whose root
\* is censusID, and every namespace that existed before the import is
\* there with the keys and the tree it had.
C38_ImportAllOrNothing ==
  [][resp'.op = "import" =>
       LET cid == resp'.CensusID
       IN /\ (cid \notin DOMAIN manager.Trees /\ cid \in DOMAIN manager'.Trees)
             => Root(manager'.Trees[cid]) = cid
          /\ \A old \in DOMAIN manager.Trees :
               /\ old \in DOMAIN manager'.Trees
               /\ manager'.Trees[old] = manager.Trees[old]
          /\ \A i \in DOMAIN manager.Namespaces :
               /\ i \in DOMAIN manager'.Namespaces
               /\ manager'.Namespaces[i] = manager.Namespaces[i]]_vars

\* ---- the import queue
\* The calls of AddToImportQueue a run makes, and the import of the k-th.
\* MaxSenders is the number of callers that can be at the send at a time.
MaxCalls == 34
MaxSenders == 2
Import(k) == [censusID |-> <<"import", ToString(k)>>, censusURI |-> IpfsURI]
InSeq(x, s) == \E i \in DOMAIN s : s[i] = x

\* A service with a storage calls Manager.Init.
DoStorageInit == ServiceInit({"ipfs"})

\* AddToImportQueue is called: the caller reaches the send on the channel.
\* txs holds the imports asked for, senders the callers at the send.
DoAddToImportQueue ==
  /\ Serving
  /\ Cardinality(txs) < MaxCalls
  /\ Len(manager.senders) < MaxSenders
  /\ LET imp == Import(Cardinality(txs) + 1)
     IN /\ txs' = txs \cup {imp}
        /\ manager' = [manager EXCEPT !.senders = Append(@, imp)]
        /\ resp' = [NewResponse EXCEPT !.op = "AddToImportQueue", !.CensusID = imp.censusID]
  /\ UNCHANGED <<working, committed, voteCache, votePool, processPool, resultsPool,
                 storeL, storeE, storeP, storeR, entityCount, tasks, lastBegin, commits,
                 recommits, written, lock, router>>

\* The send completes when the channel has room, and the call returns.
DoSend ==
  /\ manager.senders # << >>
  /\ Len(manager.importQueue) < ImportQueueSize
  /\ manager' = [manager EXCEPT !.senders = Tail(@),
                                !.importQueue = Append(@, Head(manager.senders))]
  /\ resp' = [NewResponse EXCEPT !.op = "send", !.CensusID = Head(manager.senders).censusID]
  /\ UNCHANGED <<nodeVars, router>>

\* The daemon, when Init has started it, takes the next import of the
\* channel and handles it.
DoImportQueueDaemon ==
  /\ manager.daemon = "running"
  /\ manager.importQueue # << >>
  /\ \E raw \in RawContents :
       LET imp == Head(manager.importQueue)
           m1 == [manager EXCEPT !.importQueue = Tail(@)]
       IN /\ manager' = ImportOne(m1, imp, raw)
          /\ resp' = [NewResponse EXCEPT !.op = "import", !.CensusID = imp.censusID]
  /\ UNCHANGED <<nodeVars, router>>

NextImportQueue == DoStorageInit \/ DoAddToImportQueue \/ DoSend \/ DoImportQueueDaemon
\* The goroutines at the send and the daemon are scheduled when they can run.
SpecImportQueue ==
  /\ InitCensus
  /\ [][NextImportQueue]_vars
  /\ WF_vars(DoSend)
  /\ WF_vars(DoImportQueueDaemon)

\* C39: once Init has returned without error, every call of
\* AddToImportQueue returns in the end and every import in the queue is taken
\* by the daemon in the end, whatever path Init took.
C39_ImportQueueLive ==
  \A k \in 1..MaxCalls :
    /\ (Import(k) \in txs) ~> ~InSeq(Import(k), manager.senders)
    /\ InSeq(Import(k), manager.importQueue) ~> ~InSeq(Import(k), manager.importQueue)

\* ---- the router of file requests (client/util.go)
\* The requests a run handles.
MaxRequests == 2
NoURI == [scheme |-> "", path |-> ""]
\* parseTransportFromURI: the transport of each URI of the request.
parseTransportFromURI(parsedURIs) == [i \in DOMAIN parsedURIs |-> parsedURIs[i].transport]
\* buildReply and transport.Send, sendError: one message for the request.
Send(rt, request, response) ==
  [rt EXCEPT !.replies = Append(@, [Request |-> request.id, Ok |-> TRUE,
                                    Message |-> NoErr, Content |-> response.Content,
                                    URI |-> response.URI])]
sendError(rt, request, msg) ==
  [rt EXCEPT !.replies = Append(@, [Request |-> request.id, Ok |-> FALSE,
                                    Message |-> msg, Content |-> << >>, URI |-> NoURI])]

\* fetchFile: the first URI with a known transport is fetched.  env.retrieve
\* is what storage.Retrieve answers: an error or the content.
fetchFile(rt, request, env) ==
  LET transportTypes == parseTransportFromURI(request.URI)
      known == {i \in DOMAIN transportTypes :
                  transportTypes[i] \in {"ipfs:", "bzz:", "bzz-feed"}}
      found == known # {}
      idx == CHOOSE i \in known : \A j \in known : i <= j
      err == IF ~found THEN NoErr
             ELSE IF transportTypes[idx] = "ipfs:"
                  THEN IF env.retrieve.err THEN "retrieve failed"
                       ELSE IF Len(env.retrieve.content) = 0 THEN "no content fetched"
                       ELSE NoErr
                  ELSE "bzz and bzz-feed not implemented yet"
  IN IF err # NoErr THEN sendError(rt, request, "error fetching file")
     ELSE IF ~found THEN sendError(rt, request, "error fetching file: (not supported)")
     ELSE Send(rt, request, [Content |-> EncodeToString(env.retrieve.content), URI |-> NoURI])

\* addFile: env.publishErr tells whether storage.Publish fails.
addFile(rt, request, env) ==
  LET d == DecodeString(request.Content)
  IN IF d.err THEN sendError(rt, request, "could not decode base64 content")
     ELSE CASE request.Type = "swarm" -> rt
            [] request.Type = "ipfs" ->
                 IF env.publishErr THEN sendError(rt, request, "cannot add file")
                 ELSE Send(rt, request, [Content |-> << >>,
                                         URI |-> [scheme |-> URIprefix, path |-> "cid"]])
            [] OTHER -> rt

\* The requests: the lists of URIs of fetchFile, the types and contents of
\* addFile, and the answers of the storage.
FetchURIs ==
  LET U(t) == [transport |-> t, hash |-> "h"]
  IN {<< >>, <<U("ipfs:")>>, <<U("bzz:")>>, <<U("bzz-feed")>>, <<U("http:")>>,
      <<U("http:"), U("ipfs:")>>, <<U("bzz:"), U("ipfs:")>>}
RetrieveAnswers ==
  {[err |-> TRUE, content |-> << >>], [err |-> FALSE, content |-> << >>],
   [err |-> FALSE, content |-> <<"f">>]}
FileTypes == {"ipfs", "swarm", "bzz", "unknown"}
FileContents == {EncodeToString(<<"f">>), EncodeToString(<<"f">>) \o << << >> >>}
RouterRequest(id, method, uri, type, content) ==
  [id |-> id, method |-> method, URI |-> uri, Type |-> type, Content |-> content]

InitRouter ==
  /\ NodeIdle
  /\ manager = NoManager
  /\ router = NoRouter
  /\ resp = NoResp

DoFetchFile ==
  /\ Len(router.requests) < MaxRequests
  /\ \E uri \in FetchURIs, answer \in RetrieveAnswers :
       LET request == RouterRequest(Len(router.requests) + 1, "fetchFile", uri, "", << >>)
       IN router' = fetchFile([router EXCEPT !.requests = Append(@, request)], request,
                              [retrieve |-> answer])
  /\ resp' = [NewResponse EXCEPT !.op = "fetchFile"]
  /\ UNCHANGED <<nodeVars, manager>>

DoAddFile ==
  /\ Len(router.requests) < MaxRequests
  /\ \E type \in FileTypes, content \in FileContents, publishErr \in BOOLEAN :
       LET request == RouterRequest(Len(router.requests) + 1, "addFile", << >>, type, content)
       IN router' = addFile([router EXCEPT !.requests = Append(@, request)], request,
                            [publishErr |-> publishErr])
  /\ resp' = [NewResponse EXCEPT !.op = "addFile"]
  /\ UNCHANGED <<nodeVars, manager>>

NextRouter == DoFetchFile \/ DoAddFile
SpecRouter == InitRouter /\ [][NextRouter]_vars

\* C40: every file request the router has handled got exactly one reply,
\* an error or a success message, whatever its transport or type.
C40_OneReplyEach ==
  \A i \in DOMAIN router.requests :
    Cardinality({j \in DOMAIN router.replies : router.replies[j].Request = i}) = 1
====
